---- MODULE Spec2Model ----
(***************************************************************************)
(* Verification development for the phone/OTP/email identity flow:         *)
(*   - the ACR string builder (services/applicationService.ts),            *)
(*   - the session store helpers (utils/helpers.ts, utils/sessionStorage), *)
(*   - the routed flow pages (routes/LoginPage, routes/EmailPage),         *)
(*   - the single-component flow (auth/PhoneNumberSignInV3Complete),       *)
(*   - the error recovery engine (services/errorHandlingService.ts) and    *)
(*     the hook that drives it (hooks/useErrorRecovery.ts).                *)
(* Each part has its own specifications over the shared variables: SpecAcr *)
(* (the pure builder), Spec and its variants (the routed pages with the    *)
(* browser store), SpecComplete (the single component), SpecRecovery and   *)
(* its variants (retry ledger and circuit breaker), SpecClassify,          *)
(* SpecCallback, SpecStore and SpecContext (contexts/AuthContext).         *)
(***************************************************************************)
EXTENDS Integers, Sequences, FiniteSets, TLC

VARIABLES
    \* ---- ACR builder harness
    acrIn,          \* the arguments of the call under test
    acrOut,         \* the TokenRequest / ACR fields produced, or NotBuilt
    \* ---- routed flow
    now,                    \* Date.now() of the browser, in ms
    sessionStorage,         \* window.sessionStorage: the four items the flow uses
    route,                  \* location: "/", "/email" or the post-login redirect
    mounted,                \* the page component mounted for the route
    loginPage,              \* React state of LoginPage
    emailPage,              \* React state of EmailPage
    loader,                 \* loaderService: the full-screen AuthLoader is shown
    toast,                  \* last toast added through addToast
    generateOtpTimeout,     \* generateOtpTimeoutRef: the pending debounce timer
    otpRequests,            \* triggerOtpViaSmsV2 calls awaiting their response
    tokenRequests,          \* getTokenUsingAcrValues calls awaiting their response
    sessionExpiredTimeout,  \* the pending setTimeout of the ZMAUT02 signup branch
    lastEvent,              \* history: the handler that ran last, with what it saw
    otpRun,                 \* history: the messages shown for the ZMAUT02 failures in a row
    \* ---- single-component flow (shares the browser with the routed flow)
    signIn,                 \* React state of PhoneNumberSignInV3Complete
    signUpTimeout,          \* the pending setTimeout(0) of its handleEmailSubmit
    emitted,                \* the token last handed to onGetToken
    \* ---- recovery engine
    clock,                  \* Date.now() seen by the engine, in ms
    retryAttempts,          \* Map key -> attempts
    circuitBreakers,        \* Map code -> {failures, lastFailure}
    recoveries,             \* recoverFromError calls suspended in their delay
    lastError,              \* useErrorRecovery: the code of its lastError state, or ""
    outcome,                \* history: how the last recoverFromError step ended
    failureLog,             \* history: per code, the times of recorded failures
    \* ---- classifier harness
    classifyIn,             \* the value handed to the function under test
    classified,             \* the call made on it: fn and result, or NotCalled
    \* ---- third-party redirect callback (shares the browser with the flows)
    finoramic,              \* React state of FinoramicCallback and its token call
    \* ---- session store harness (works on sessionStorage and now)
    store,                  \* whether the browser store throws; the call made last
    \* ---- authentication context (contexts/AuthContext)
    authContext             \* reducer state, the handler's pending map, logins in flight

acrVars == <<acrIn, acrOut>>

flowVars ==
    <<now, sessionStorage, route, mounted, loginPage, emailPage, loader, toast,
      generateOtpTimeout, otpRequests, tokenRequests, sessionExpiredTimeout, lastEvent,
      otpRun>>

completeVars == <<signIn, signUpTimeout, emitted>>

recoveryVars ==
    <<clock, retryAttempts, circuitBreakers, recoveries, lastError, outcome, failureLog>>

classifyVars == <<classifyIn, classified>>

callbackVars == <<finoramic>>

storeVars == <<store>>

contextVars == <<authContext>>

vars == <<acrVars, flowVars, completeVars, recoveryVars, classifyVars, callbackVars, storeVars, contextVars>>

\* null / undefined object references; a record, so that it compares with records
NULL == [ isNull |-> TRUE ]
NotBuilt == [ built |-> FALSE ]

(***************************************************************************)
(* ACR builder                                                              *)
(***************************************************************************)

\* boolean.toString()
BoolToString(b) == IF b THEN "true" ELSE "false"

\* number -> string for the login contexts the callers pass
NumToString(n) == IF n = 2 THEN "2" ELSE IF n = 1 THEN "1" ELSE "0"

\* JavaScript truthiness of a string
Truthy(s) == s # ""

\* One '&key:value' segment of the ACR string; the first segment has no '&'.
Field(k, v) == <<k, v>>

\* getAcrValues line 171: a Truecaller request is never an OTP request
EffectiveIsOtp(isOtpArg, isTruecaller) == IF isTruecaller THEN FALSE ELSE isOtpArg

\* variant of AcrFlagFields writing isSignup and isLogin whatever the version
AcrFlagFields_AnyVersion(isOtp, isSignup, isTruecaller, version) ==
    << Field("isOtp", BoolToString(isOtp)),
       Field("isSignup", BoolToString(isSignup)),
       Field("isLogin", BoolToString(~isSignup)),
       Field("isTruecaller", BoolToString(isTruecaller)) >>

\* 'isOtp:..' [ '&isSignup:..&isLogin:..' ] '&isTruecaller:..'
AcrFlagFields(isOtp, isSignup, isTruecaller, version) ==
    LET s0 == << Field("isOtp", BoolToString(isOtp)) >>
        s1 == IF version # "2"
                THEN IF isSignup
                       THEN s0 \o << Field("isSignup", "true"), Field("isLogin", "false") >>
                       ELSE s0 \o << Field("isSignup", "false"), Field("isLogin", "true") >>
                ELSE s0
    IN s1 \o << Field("isTruecaller", BoolToString(isTruecaller)) >>

\* '&mobile:91<number>' under its gate
AcrMobileField(isOtp, isSignup, isTruecaller, authentication) ==
    IF /\ (((isOtp \/ isTruecaller) /\ ~isSignup) \/ isSignup)
       /\ authentication # NULL
       /\ Truthy(authentication.MobileNumber)
      THEN << Field("mobile", "91" \o authentication.MobileNumber) >>
      ELSE << >>

\* '&email:<email>' under its gate
AcrEmailField(isOtp, isSignup, isTruecaller, authentication) ==
    IF /\ ((~isOtp /\ ~isTruecaller /\ ~isSignup) \/ isSignup)
       /\ authentication # NULL
       /\ Truthy(authentication.Email)
      THEN << Field("email", authentication.Email) >>
      ELSE << >>

\* '&loginContext:<n>' when the caller supplied a non-zero context
AcrLoginContextField(acrValues) ==
    IF acrValues # NULL /\ acrValues.loginContext # 0
      THEN << Field("loginContext", NumToString(acrValues.loginContext)) >>
      ELSE << >>

\* variant of AcrOtpIdField without the OTP-mode gate
AcrOtpIdField_Ungated(isOtp, authentication) ==
    IF authentication # NULL /\ Truthy(authentication.OtpId)
      THEN << Field("otpId", authentication.OtpId) >>
      ELSE << >>

\* '&otpId:<id>' in OTP mode only
AcrOtpIdField(isOtp, authentication) ==
    IF isOtp /\ authentication # NULL /\ Truthy(authentication.OtpId)
      THEN << Field("otpId", authentication.OtpId) >>
      ELSE << >>

\* loanApplicationId, merchantId, encryptedMerchantId, MerchantCustomerId
AcrRoutingFields(acrValues) ==
    LET f(k) == IF acrValues # NULL /\ Truthy(acrValues[k])
                  THEN << Field(k, acrValues[k]) >> ELSE << >>
    IN f("loanApplicationId") \o f("merchantId") \o f("encryptedMerchantId")
         \o f("MerchantCustomerId")

\* '&version:2' for the newer protocol
AcrVersionField(version) ==
    IF version = "2" THEN << Field("version", version) >> ELSE << >>

\* '&qType:..&qValue:..' when both are non-empty
AcrQFields(acrValues) ==
    IF acrValues # NULL /\ Truthy(acrValues.qType) /\ Truthy(acrValues.qValue)
      THEN << Field("qType", acrValues.qType), Field("qValue", acrValues.qValue) >>
      ELSE << >>

\* variant of AcrFields with loginContext appended after MerchantCustomerId
AcrFields_LoginContextAfterRouting(acrValues, isOtpArg, isSignup, isTruecaller, authentication, version) ==
    LET isOtp == EffectiveIsOtp(isOtpArg, isTruecaller)
    IN AcrFlagFields(isOtp, isSignup, isTruecaller, version)
         \o AcrMobileField(isOtp, isSignup, isTruecaller, authentication)
         \o AcrEmailField(isOtp, isSignup, isTruecaller, authentication)
         \o AcrOtpIdField(isOtp, authentication)
         \o AcrRoutingFields(acrValues)
         \o AcrLoginContextField(acrValues)
         \o AcrVersionField(version)
         \o AcrQFields(acrValues)

\* getAcrValues, as the list of key:value segments it concatenates, in the
\* order of its acrString += statements.
\* acrValues and authentication may be NULL; version is a string.
AcrFields(acrValues, isOtpArg, isSignup, isTruecaller, authentication, version) ==
    LET isOtp == EffectiveIsOtp(isOtpArg, isTruecaller)
    IN AcrFlagFields(isOtp, isSignup, isTruecaller, version)
         \o AcrMobileField(isOtp, isSignup, isTruecaller, authentication)
         \o AcrEmailField(isOtp, isSignup, isTruecaller, authentication)
         \o AcrLoginContextField(acrValues)
         \o AcrOtpIdField(isOtp, authentication)
         \o AcrRoutingFields(acrValues)
         \o AcrVersionField(version)
         \o AcrQFields(acrValues)

\* The string itself: segments joined as key:value with '&' between them.
RECURSIVE JoinFields(_)
JoinFields(fs) ==
    IF fs = <<>> THEN ""
    ELSE IF Len(fs) = 1 THEN fs[1][1] \o ":" \o fs[1][2]
    ELSE fs[1][1] \o ":" \o fs[1][2] \o "&" \o JoinFields(Tail(fs))

getAcrValues(acrValues, isOtp, isSignup, isTruecaller, authentication, version) ==
    JoinFields(AcrFields(acrValues, isOtp, isSignup, isTruecaller, authentication, version))

\* getTokenUsingAcrValues up to the TokenRequest it hands to the transport.
TokenRequest(authentication, isSignup, isTruecaller, acrValues, version) ==
    LET otpMode == /\ Truthy(authentication.MobileNumber)
                   /\ (Truthy(authentication.Otp) \/ isTruecaller)
        username == IF otpMode THEN "91" \o authentication.MobileNumber
                    ELSE authentication.Email
        password == IF otpMode
                      THEN (IF isTruecaller THEN username ELSE authentication.Otp)
                      ELSE authentication.Password
    IN [ username |-> username,
         password |-> password,
         isOtp |-> otpMode,
         fields |-> AcrFields(acrValues, otpMode, isSignup, isTruecaller, authentication, version),
         acr_values |-> getAcrValues(acrValues, otpMode, isSignup, isTruecaller, authentication, version) ]

\* ---- input domains of the builder harness
AcrMobiles == {"", "9876543210"}
AcrEmails == {"", "user@gmail.com"}
AcrOtpIds == {"", "abc"}
AcrOtps == {"", "123456"}
AcrVersions == {"1", "2"}
AcrValuesDomain ==
    [ loanApplicationId : {"", "LA1"},
      merchantId : {"", "M1"},
      encryptedMerchantId : {"", "EM1"},
      MerchantCustomerId : {"", "MC1"},
      loginContext : {0, 2},
      qType : {"", "panIdentifier"},
      qValue : {"", "1234"} ]
AcrAuthDomain ==
    [ MobileNumber : AcrMobiles, Email : AcrEmails, Password : {""},
      Otp : AcrOtps, OtpId : AcrOtpIds, ShowMfaChallenge : {FALSE} ]

AcrInputs ==
    [ acrValues : AcrValuesDomain \cup {NULL},
      isOtp : BOOLEAN, isSignup : BOOLEAN, isTruecaller : BOOLEAN,
      authentication : AcrAuthDomain \cup {NULL},
      version : AcrVersions ]


(***************************************************************************)
(* Session store (utils/helpers.ts, utils/sessionStorage.ts)               *)
(***************************************************************************)

\* new Authentication()
NewAuthentication ==
    [ MobileNumber |-> "", Email |-> "", Password |-> "",
      Otp |-> "", OtpId |-> "", ShowMfaChallenge |-> FALSE ]

\* What sessionStorage holds under one key: nothing, a plain string, the text
\* JSON.stringify produced for a value, or bytes that JSON.parse rejects.
NoItem == [ kind |-> "absent" ]
GarbageItem == [ kind |-> "garbage" ]
StringItem(s) == [ kind |-> "string", value |-> s ]
JSONstringify(v) == [ kind |-> "json", value |-> v ]

\* JSON.parse throws a SyntaxError on these
JSONparseThrows(item) == item.kind # "json"
JSONparse(item) == item.value

EmptySessionStorage ==
    [ AUTHENTICATION |-> NoItem, CONTACT |-> NoItem, SIGN_UP |-> NoItem, ZEST |-> NoItem ]

\* helpers.ts isValidAuthSessionStorage, at time t
isValidAuthSessionStorage(st, t) ==
    IF st.AUTHENTICATION = NoItem THEN FALSE
    ELSE IF JSONparseThrows(st.AUTHENTICATION) THEN FALSE
    ELSE t - JSONparse(st.AUTHENTICATION).issuedAt < 60000 * 5

\* sessionStorage.ts getAuthenticationSession: the parsed record, or null
getAuthenticationSession(st) ==
    IF st.AUTHENTICATION = NoItem THEN NULL
    ELSE IF JSONparseThrows(st.AUTHENTICATION) THEN NULL
    ELSE JSONparse(st.AUTHENTICATION)

\* setAuthenticationSession leaving a record that is already stored in place
setAuthenticationSession_KeepsFirst(st, authSession) ==
    IF st.AUTHENTICATION = NoItem
      THEN [ st EXCEPT !.AUTHENTICATION = JSONstringify(authSession) ]
      ELSE st

setAuthenticationSession(st, authSession) ==
    [ st EXCEPT !.AUTHENTICATION = JSONstringify(authSession) ]

removeAuthenticationSession(st) == [ st EXCEPT !.AUTHENTICATION = NoItem ]

setContactNumber(st, mobileNumber) == [ st EXCEPT !.CONTACT = StringItem(mobileNumber) ]

setSignUpFlag(st, value) == [ st EXCEPT !.SIGN_UP = StringItem(BoolToString(value)) ]

initializeSessionStorage(st) == [ st EXCEPT !.SIGN_UP = StringItem("false") ]

\* setZestToken, the item it stores before redirecting
setZestTokenItem(st, token) == [ st EXCEPT !.ZEST = JSONstringify(token) ]

(***************************************************************************)
(* Error codes and messages (types/contracts.ts, utils/helpers.ts)         *)
(***************************************************************************)

\* AuthenticationV2ErrorMessages, for the codes the backend stub returns
V2MessageCodes ==
    {"ZMAUT02", "ZMAUT04", "ZMAUT17", "ZMAUT23", "ZMAUT25", "ZMAUT28", "ZMAUT30", "ZMAUT500"}
AuthenticationV2ErrorMessages(code) ==
    CASE code = "ZMAUT02" -> "Incorrect OTP. Please enter the verification code again."
      [] code = "ZMAUT04" -> "Could not send OTP, try again"
      [] code = "ZMAUT17" -> "Enter valid phone number"
      [] code = "ZMAUT23" -> "Enter valid email address"
      [] code = "ZMAUT25" -> "Email linked to another user"
      [] code = "ZMAUT28" -> "Enter valid email address"
      [] code = "ZMAUT30" -> "Please check your PAN & enter correct details"
      [] code = "ZMAUT500" -> "Something went wrong, try again"
      [] OTHER -> ""



\* ---------------------------------------------------------------------------
\* Error classification (services/errorHandlingService.ts) and error-code
\* extraction (utils/helpers.ts), as pure functions over JavaScript values.
\* ---------------------------------------------------------------------------

\* String.prototype.substring(start, end): indices clamped to [0, length],
\* swapped when start > end
Clamp(n, len) == IF n < 0 THEN 0 ELSE IF n > len THEN len ELSE n
substring(s, start, end) ==
    LET a == Clamp(start, Len(s))
        b == Clamp(end, Len(s))
    IN  IF a <= b THEN SubSeq(s, a + 1, b) ELSE SubSeq(s, b + 1, a)

\* String.prototype.indexOf(ch) for a one-character ch: 0-based, -1 when absent
indexOf(s, ch) ==
    IF \E i \in 1..Len(s) : SubSeq(s, i, i) = ch
    THEN (CHOOSE i \in 1..Len(s) :
              /\ SubSeq(s, i, i) = ch
              /\ \A j \in 1..(i - 1) : SubSeq(s, j, j) # ch) - 1
    ELSE -1

\* String.prototype.lastIndexOf(ch)
lastIndexOf(s, ch) ==
    IF \E i \in 1..Len(s) : SubSeq(s, i, i) = ch
    THEN (CHOOSE i \in 1..Len(s) :
              /\ SubSeq(s, i, i) = ch
              /\ \A j \in (i + 1)..Len(s) : SubSeq(s, j, j) # ch) - 1
    ELSE -1

startsWith(s, prefix) ==
    Len(s) >= Len(prefix) /\ SubSeq(s, 1, Len(prefix)) = prefix

includes(s, word) ==
    \E i \in 0..(Len(s) - Len(word)) : SubSeq(s, i + 1, i + Len(word)) = word

UpperCase == "ABCDEFGHIJKLMNOPQRSTUVWXYZ"
LowerCase == "abcdefghijklmnopqrstuvwxyz"
LowerChar(ch) ==
    LET at == indexOf(UpperCase, ch)
    IN  IF at >= 0 THEN SubSeq(LowerCase, at + 1, at + 1) ELSE ch

RECURSIVE toLowerCase(_)
toLowerCase(s) ==
    IF Len(s) = 0 THEN ""
    ELSE LowerChar(SubSeq(s, 1, 1)) \o toLowerCase(SubSeq(s, 2, Len(s)))

\* --- JavaScript values handed to the classifier ----------------------------
\* kind      : "null", "undefined", "string", "Error" or "object"
\* text      : the value of a string
\* name      : Error.name
\* hasMessage: 'message' in error;  message: its value
\* codeKind  : "absent" ('code' not in error), "string", "number" or "null"
\* code      : the code when it is a string
\* type      : error.type, "" when absent
\* retryable : "undefined", "true" or "false"
\* statusCode: -1 when 'statusCode' is not in error
\* hasService: 'service' in error
NoStatusCode == -1

Value(kind, text, name, hasMessage, message, codeKind, code, type, retryable, statusCode, hasService) ==
    [ kind |-> kind, text |-> text, name |-> name,
      hasMessage |-> hasMessage, message |-> message,
      codeKind |-> codeKind, code |-> code, type |-> type,
      retryable |-> retryable, statusCode |-> statusCode, hasService |-> hasService ]

NullValue == Value("null", "", "", FALSE, "", "absent", "", "", "undefined", NoStatusCode, FALSE)
UndefinedValue == Value("undefined", "", "", FALSE, "", "absent", "", "", "undefined", NoStatusCode, FALSE)
StringValue(text) == Value("string", text, "", FALSE, "", "absent", "", "", "undefined", NoStatusCode, FALSE)
ErrorValue(name, message) ==
    Value("Error", "", name, TRUE, message, "absent", "", "", "undefined", NoStatusCode, FALSE)
\* an AuthError as types/errors.ts declares it: code and message are strings
AuthErrorValue(code, type, retryable) ==
    Value("object", "", "", TRUE, "Something went wrong", "string", code, type, retryable, NoStatusCode, FALSE)

ErrorTypes ==
    {"AUTHENTICATION", "VALIDATION", "NETWORK", "THIRD_PARTY", "SYSTEM", "RATE_LIMIT", "SECURITY"}

\* what a throwing call produces instead of a value
TypeError == "TypeError"

isAuthError(error) ==
    error.kind \in {"object", "Error"} /\ error.codeKind # "absent" /\ error.hasMessage

isNetworkError(error) == isAuthError(error) /\ error.statusCode # NoStatusCode

isThirdPartyError(error) == isAuthError(error) /\ error.hasService

\* !error
IsFalsy(error) ==
    \/ error.kind \in {"null", "undefined"}
    \/ error.kind = "string" /\ error.text = ""

\* the chain of code.startsWith tests; "" when none matches
classifyCode(code) ==
    IF startsWith(code, "AUTH_") \/ startsWith(code, "OTP_") \/ startsWith(code, "PWD_")
    THEN "AUTHENTICATION"
    ELSE IF startsWith(code, "PHONE_") \/ startsWith(code, "EMAIL_") \/ startsWith(code, "VAL_")
    THEN "VALIDATION"
    ELSE IF startsWith(code, "NET_") \/ startsWith(code, "TIMEOUT_")
    THEN "NETWORK"
    ELSE IF startsWith(code, "GOOGLE_") \/ startsWith(code, "TRUECALLER_")
            \/ startsWith(code, "FINORAMIC_")
    THEN "THIRD_PARTY"
    ELSE IF startsWith(code, "RATE_") THEN "RATE_LIMIT"
    ELSE IF startsWith(code, "SEC_") THEN "SECURITY"
    ELSE ""

\* classifyError: the category, or TypeError when code.startsWith is called on
\* a code that is not a string
classifyError(error) ==
    IF IsFalsy(error) THEN "SYSTEM"
    ELSE IF error.kind = "string"
    THEN IF \/ includes(toLowerCase(error.text), "network")
            \/ includes(toLowerCase(error.text), "connection")
         THEN "NETWORK" ELSE "SYSTEM"
    ELSE IF error.kind = "Error"
    THEN LET message == toLowerCase(error.message)
         IN  IF includes(message, "network") \/ includes(message, "fetch")
                \/ includes(message, "timeout")
             THEN "NETWORK"
             ELSE IF includes(message, "validation") \/ includes(message, "invalid")
             THEN "VALIDATION"
             ELSE "SYSTEM"
    ELSE IF isAuthError(error) /\ error.type # "" THEN error.type
    ELSE IF isAuthError(error) /\ error.codeKind # "string" THEN TypeError
    ELSE IF isAuthError(error) /\ classifyCode(error.code) # "" THEN classifyCode(error.code)
    ELSE IF isNetworkError(error) THEN "NETWORK"
    ELSE IF isThirdPartyError(error) THEN "THIRD_PARTY"
    ELSE "SYSTEM"

createError(code, message, retryable, type) ==
    [ code |-> code, message |-> message, retryable |-> retryable, type |-> type ]

handleEdgeCase(error) ==
    IF error.kind = "Error" /\ error.name = "AbortError"
    THEN createError("NET_002", "Request timed out. Please try again.", TRUE, "NETWORK")
    ELSE IF error.kind = "Error"
            /\ (includes(error.message, "Failed to fetch") \/ includes(error.message, "NetworkError"))
    THEN createError("NET_001",
                     "Network connection failed. Please check your internet connection.",
                     TRUE, "NETWORK")
    ELSE IF isNetworkError(error) /\ error.statusCode # 0 /\ error.statusCode >= 500
    THEN createError("SYS_001", "Server error occurred. Please try again later.", TRUE, "SYSTEM")
    ELSE IF isNetworkError(error) /\ error.statusCode = 503
    THEN createError("SYS_002",
                     "Service is temporarily unavailable. Please try again later.",
                     TRUE, "SYSTEM")
    ELSE IF error.kind = "Error"
    THEN createError("UNKNOWN_ERROR",
                     IF error.message # "" THEN error.message ELSE "An unexpected error occurred",
                     FALSE, "SYSTEM")
    ELSE IF error.kind = "string"
    THEN createError("UNKNOWN_ERROR", error.text, FALSE, "SYSTEM")
    ELSE createError("UNKNOWN_ERROR", "An unexpected error occurred", FALSE, "SYSTEM")

\* --- helpers.ts: the error code of a rejected HTTP call --------------------
\* The rejection value: `error` is null (kind "null"), or an object whose
\* `error` property (the response body) is absent (body "undefined"), a text
\* that is not JSON (body "string") or a parsed object (body "object") with the
\* properties error_description, Message and error, each "" when absent.
HttpError(kind, body, error_description, Message, error) ==
    [ kind |-> kind, body |-> body,
      error_description |-> error_description, Message |-> Message, error |-> error ]

\* errorCodeOf cutting at the last '|' instead of the first
errorCodeOf_LastBar(error_description) ==
    IF Len(error_description) > 0
    THEN LET error_code == substring(error_description, 0, lastIndexOf(error_description, "|"))
         IN  IF Len(error_code) > 5 /\ substring(error_code, 0, 5) = "ZMAUT"
             THEN error_code
             ELSE ""
    ELSE ""

\* the code of a message: what precedes its first '|', when that is longer
\* than five characters and starts with ZMAUT; "" stands for null
errorCodeOf(error_description) ==
    IF Len(error_description) > 0
    THEN LET error_code == substring(error_description, 0, indexOf(error_description, "|"))
         IN  IF Len(error_code) > 5 /\ substring(error_code, 0, 5) = "ZMAUT"
             THEN error_code
             ELSE ""
    ELSE ""

\* `a || b` on two strings
OrElse(a, b) == IF a # "" THEN a ELSE b

\* reading a property of null throws inside the try block, a body that is
\* absent stringifies to undefined, a body that is a text has no properties
checkIfErrorCodeRetured(error) ==
    IF error.kind = "null" \/ error.body # "object" THEN ""
    ELSE errorCodeOf(OrElse(error.error_description, error.Message))

checkIfErrorCodeReturedFromGoogle(error) ==
    IF error.kind = "null" \/ error.body # "object" THEN ""
    ELSE errorCodeOf(OrElse(error.error, error.Message))

(***************************************************************************)
(* Routed flow: shared pieces                                               *)
(***************************************************************************)

\* ---- bounds and input domains of the flow
TickMs == 150000
MaxTime == 300000
MaxInFlight == 1
\* cap on the token calls of verifyOtp awaiting their response, where repeated
\* submits are explored (SpecReentry)
MaxVerifyInFlight == 2
MaxOtpAttempts == 4

Mobiles == {"9876543210", "9123456780"}
\* enteredNumber at submit: typed digits (maxLength 10), or the phone number
\* Google Pay handed to setEnteredNumber
MobileInputs == Mobiles \cup {"98765", "1234567890", "+919876543210"}
Otps == {"123456"}
OtpInputs == Otps \cup {"12"}
PanInputs == {"", "1234"}
OtpIds == {"abc"}
Emails == {"user@gmail.com"}
Tokens == { [ access_token |-> "tok1", token_type |-> "Bearer", expires_in |-> 3600 ] }
\* rejections of a backend call: a response whose error_description is
\* "<code>|<text>", or a network failure that carries no response body
NetworkFailure == HttpError("object", "undefined", "", "", "")
BackendErrors ==
    { HttpError("object", "object", c \o "|Request failed", "", "") :
          c \in {"ZMAUT02", "ZMAUT23", "ZMAUT25", "ZMAUT28", "ZMAUT30"} }
      \cup { NetworkFailure }
OtpBackendErrors ==
    { HttpError("object", "object", "ZMAUT04|Could not send OTP", "", ""), NetworkFailure }

IsDigit(ch) == indexOf("0123456789", ch) >= 0
\* value.match(/^[0-9]+$/)
AllDigits(value) == Len(value) > 0 /\ \A i \in 1..Len(value) : IsDigit(SubSeq(value, i, i))
\* mobileNumber.length === 10 && mobileNumber.match(/^[0-9]+$/)
IsTenDigits(mobileNumber) == Len(mobileNumber) = 10 /\ AllDigits(mobileNumber)


\* regexTest taking any digit as the first of the ten
regexTest_AnyDigitFirst(value) ==
    \E i \in 1..(Len(value) - 9) :
        \A j \in i..(i + 9) : IsDigit(SubSeq(value, j, j))
\* EnterMobileNumberV3: new RegExp(/([5-9])\d{9}/).test(value); the expression
\* is not anchored, so it looks for the ten characters anywhere in the value
regexTest(value) ==
    \E i \in 1..(Len(value) - 9) :
        /\ indexOf("56789", SubSeq(value, i, i)) >= 0
        /\ \A j \in (i + 1)..(i + 9) : IsDigit(SubSeq(value, j, j))
\* checkError(value, 'submit'): TRUE when the form shows its own error
checkError(value) == ~regexTest(value)
\* otp.length === 6 && otp.match(/^[0-9]+$/), on the input domain
IsSixDigits(otp) == otp \in Otps
\* pan && pan.length === 4, on the input domain
IsFourChars(pan) == pan = "1234"

NoTimer == [ pending |-> FALSE ]

Event(name, seen) == [ name |-> name, seen |-> seen ]
Nothing == [ none |-> TRUE ]

\* the initial React state of the two pages
LoginInitial ==
    [ authentication |-> NewAuthentication,
      showOtpForm |-> FALSE,
      hasOtpCallFinished |-> FALSE,
      errorMessage |-> "",
      waOpted |-> TRUE,
      retryOtpAttempts |-> 0 ]

NoAuthError == [ heading |-> "" ]

EmailInitial ==
    [ authentication |-> NewAuthentication,
      authError |-> NoAuthError,
      isSubmitting |-> FALSE,
      isSubmitInProgress |-> FALSE,
      waOpted |-> TRUE,
      incomeConsent |-> FALSE,
      sessionChecked |-> FALSE,
      isInitialized |-> FALSE,
      showLogoutConfirmModal |-> FALSE ]

\* a sequence without its i-th element
RemoveAt(s, i) == SubSeq(s, 1, i - 1) \o SubSeq(s, i + 1, Len(s))

\* the requests of a page that unmounts: their handlers still run, but the
\* state setters of the unmounted component no longer have any effect
Detach(reqs) == [ i \in 1..Len(reqs) |-> [ reqs[i] EXCEPT !.attached = FALSE ] ]

\* a LoginPage mounting without the mount effect's removeAuthenticationSession
MountLoginPage_KeepsRecord(st, reqs) ==
    /\ route' = "/"
    /\ mounted' = "LoginPage"
    /\ loginPage' = LoginInitial
    /\ emailPage' = EmailInitial
    /\ sessionStorage' = initializeSessionStorage(st)
    /\ loader' = FALSE
    /\ generateOtpTimeout' = NoTimer
    /\ otpRequests' = << >>
    /\ tokenRequests' = Detach(reqs)

\* navigate(ROUTES.ROOT) ending on a freshly mounted LoginPage, st being the
\* store the caller leaves behind and reqs the token calls still in flight.
\* LoginPage's mount effect removes the session record; useAuthServices'
\* mount effect runs initializeSessionStorage.
MountLoginPage(st, reqs) ==
    /\ route' = "/"
    /\ mounted' = "LoginPage"
    /\ loginPage' = LoginInitial
    /\ emailPage' = EmailInitial
    /\ sessionStorage' = initializeSessionStorage(removeAuthenticationSession(st))
    /\ loader' = FALSE
    /\ generateOtpTimeout' = NoTimer
    /\ otpRequests' = << >>
    /\ tokenRequests' = Detach(reqs)

\* navigate(ROUTES.EMAIL) ending on a freshly mounted EmailPage
MountEmailPage(st, reqs) ==
    /\ route' = "/email"
    /\ mounted' = "EmailPage"
    /\ loginPage' = LoginInitial
    /\ emailPage' = EmailInitial
    /\ sessionStorage' = initializeSessionStorage(st)
    /\ loader' = FALSE
    /\ generateOtpTimeout' = NoTimer
    /\ otpRequests' = << >>
    /\ tokenRequests' = Detach(reqs)

(***************************************************************************)
(* The browser: loading the application, reloading it, time passing        *)
(***************************************************************************)

\* the application is loaded at route "/" or "/email" and its page mounts
LoadApplication ==
    /\ mounted = "none"
    /\ route \in {"/", "/email"}
    /\ IF route = "/"
         THEN MountLoginPage(sessionStorage, << >>)
         ELSE MountEmailPage(sessionStorage, << >>)
    /\ lastEvent' = Event("LoadApplication", Nothing)
    /\ UNCHANGED <<now, toast, sessionExpiredTimeout>>

\* the user reloads the tab or enters one of the application's URLs: all
\* script state is lost, sessionStorage survives
Reload(url) ==
    /\ route' = url
    /\ mounted' = "none"
    /\ loginPage' = LoginInitial
    /\ emailPage' = EmailInitial
    /\ loader' = FALSE
    /\ toast' = ""
    /\ generateOtpTimeout' = NoTimer
    /\ otpRequests' = << >>
    /\ tokenRequests' = << >>
    /\ sessionExpiredTimeout' = FALSE
    /\ lastEvent' = Event("Reload", Nothing)
    /\ UNCHANGED <<now, sessionStorage>>

\* time passes; the sub-second and two-second timers have fired by then
Tick ==
    /\ now + TickMs <= MaxTime
    /\ generateOtpTimeout = NoTimer
    /\ ~sessionExpiredTimeout
    /\ now' = now + TickMs
    /\ lastEvent' = Event("Tick", Nothing)
    /\ UNCHANGED <<sessionStorage, route, mounted, loginPage, emailPage, loader, toast,
                   generateOtpTimeout, otpRequests, tokenRequests, sessionExpiredTimeout>>

(***************************************************************************)
(* LoginPage (routes/LoginPage)                                             *)
(***************************************************************************)

LoginUsable == mounted = "LoginPage" /\ ~loader

\* LoginPage's render: errorMessage is a prop of EnterOtpV3 only, which is
\* rendered while showOtpForm is set; "" when no message is on the screen
LoginErrorShown ==
    IF mounted = "LoginPage" /\ loginPage.showOtpForm THEN loginPage.errorMessage ELSE ""

\* generateOtp leaving a timer that is already pending as it is
generateOtp_KeepPending(mobileNumber) ==
    IF generateOtpTimeout.pending THEN generateOtpTimeout
    ELSE [ pending |-> TRUE, mobileNumber |-> mobileNumber ]

\* generateOtp: (re)arm the 500 ms debounce timer
generateOtp(mobileNumber) == [ pending |-> TRUE, mobileNumber |-> mobileNumber ]

\* handleMobileSubmit, called by the mobile form
handleMobileSubmit(mobileNumber) ==
    /\ LoginUsable
    /\ ~loginPage.showOtpForm
    /\ IF IsTenDigits(mobileNumber)
         THEN /\ loginPage' = [ loginPage EXCEPT !.authentication.MobileNumber = mobileNumber ]
              /\ generateOtpTimeout' = generateOtp(mobileNumber)
         ELSE UNCHANGED <<loginPage, generateOtpTimeout>>
    /\ lastEvent' = Event("handleMobileSubmit", [ cleared |-> generateOtpTimeout ])
    /\ UNCHANGED <<now, sessionStorage, route, mounted, emailPage, loader, toast,
                   otpRequests, tokenRequests, sessionExpiredTimeout>>

\* EnterMobileNumberV3.submitMobileNumber: onGenerateOtp is handleMobileSubmit;
\* a value the expression rejects only sets the form's own error
submitMobileNumber(enteredNumber) ==
    IF ~checkError(enteredNumber)
      THEN handleMobileSubmit(enteredNumber)
      ELSE /\ LoginUsable
           /\ ~loginPage.showOtpForm
           /\ lastEvent' = Event("submitMobileNumber", [ rejected |-> enteredNumber ])
           /\ UNCHANGED <<now, sessionStorage, route, mounted, loginPage, emailPage, loader,
                          toast, otpRequests, tokenRequests, generateOtpTimeout,
                          sessionExpiredTimeout>>

\* the debounce timer fires: callGenerateOtp up to its await
callGenerateOtp ==
    /\ mounted = "LoginPage"
    /\ generateOtpTimeout.pending
    /\ Len(otpRequests) + Len(tokenRequests) < MaxInFlight
    /\ LET mobileNumber == generateOtpTimeout.mobileNumber
       IN IF ~IsTenDigits(mobileNumber)
            THEN /\ loginPage' = [ loginPage EXCEPT
                                     !.errorMessage = AuthenticationV2ErrorMessages("ZMAUT17") ]
                 /\ UNCHANGED otpRequests
            ELSE /\ loginPage' = [ loginPage EXCEPT
                                     !.errorMessage = "",
                                     !.authentication.Otp = "",
                                     !.authentication.OtpId = "",
                                     !.showOtpForm = TRUE,
                                     !.hasOtpCallFinished = FALSE ]
                 /\ otpRequests' = Append(otpRequests, [ mobileNumber |-> mobileNumber ])
    /\ generateOtpTimeout' = NoTimer
    /\ lastEvent' = Event("callGenerateOtp", Nothing)
    /\ UNCHANGED <<now, sessionStorage, route, mounted, emailPage, loader, toast,
                   tokenRequests, sessionExpiredTimeout>>

\* triggerOtpViaSmsV2 resolves: the rest of callGenerateOtp's try block
triggerOtpResolves(i, OtpId, ShowMfaChallenge) ==
    /\ mounted = "LoginPage"
    /\ i \in 1..Len(otpRequests)
    /\ loginPage' = [ loginPage EXCEPT
                        !.authentication.MobileNumber = otpRequests[i].mobileNumber,
                        !.authentication.OtpId = OtpId,
                        !.authentication.ShowMfaChallenge = ShowMfaChallenge,
                        !.hasOtpCallFinished = TRUE ]
    /\ otpRequests' = RemoveAt(otpRequests, i)
    /\ lastEvent' = Event("triggerOtpResolves",
                          [ mobileNumber |-> otpRequests[i].mobileNumber, OtpId |-> OtpId,
                            ShowMfaChallenge |-> ShowMfaChallenge ])
    /\ UNCHANGED <<now, sessionStorage, route, mounted, emailPage, loader, toast,
                   generateOtpTimeout, tokenRequests, sessionExpiredTimeout>>

\* triggerOtpViaSmsV2 rejects: callGenerateOtp's catch block
triggerOtpRejects(i, error) ==
    /\ mounted = "LoginPage"
    /\ i \in 1..Len(otpRequests)
    /\ LET errorCode == checkIfErrorCodeRetured(error)
       IN loginPage' = [ loginPage EXCEPT
                           !.showOtpForm = FALSE,
                           !.hasOtpCallFinished = FALSE,
                           !.errorMessage =
                               IF errorCode # "" /\ AuthenticationV2ErrorMessages(errorCode) # ""
                                 THEN AuthenticationV2ErrorMessages(errorCode)
                                 ELSE "Failed to send OTP. Please try again." ]
    /\ otpRequests' = RemoveAt(otpRequests, i)
    /\ lastEvent' = Event("triggerOtpRejects", Nothing)
    /\ UNCHANGED <<now, sessionStorage, route, mounted, emailPage, loader, toast,
                   generateOtpTimeout, tokenRequests, sessionExpiredTimeout>>

\* verifyOtp up to its await, called by the OTP form's submit
verifyOtp(otp, pan) ==
    /\ LoginUsable
    /\ loginPage.showOtpForm
    /\ loginPage.hasOtpCallFinished
    /\ LET updatedAuth == [ loginPage.authentication EXCEPT !.Otp = otp ]
           acrValues == [ loanApplicationId |-> "", merchantId |-> "",
                          encryptedMerchantId |-> "", MerchantCustomerId |-> "",
                          loginContext |-> 2, qType |-> "panIdentifier", qValue |-> pan ]
           authForToken == [ updatedAuth EXCEPT !.Email = "", !.Password = "" ]
       IN IF ~IsSixDigits(otp)
            THEN UNCHANGED <<loginPage, tokenRequests>>
            ELSE IF updatedAuth.ShowMfaChallenge /\ ~IsFourChars(pan)
            THEN /\ loginPage' = [ loginPage EXCEPT !.authentication = updatedAuth ]
                 /\ UNCHANGED tokenRequests
            ELSE /\ loginPage' = [ loginPage EXCEPT
                                     !.authentication = updatedAuth,
                                     !.retryOtpAttempts = @ + 1,
                                     !.errorMessage = "" ]
                 /\ tokenRequests' = Append(tokenRequests,
                        [ page |-> "LoginPage",
                          attached |-> TRUE,
                          updatedAuth |-> updatedAuth,
                          waOpted |-> loginPage.waOpted,
                          retryOtpAttempts |-> loginPage.retryOtpAttempts,
                          request |-> TokenRequest(authForToken, FALSE, FALSE, acrValues, "2") ])
    /\ lastEvent' = Event("verifyOtp", Nothing)
    /\ UNCHANGED <<now, sessionStorage, route, mounted, emailPage, loader, toast,
                   generateOtpTimeout, otpRequests, sessionExpiredTimeout>>

\* the login token call resolves: the rest of verifyOtp's try block
loginTokenResolves(i, token) ==
    /\ i \in 1..Len(tokenRequests)
    /\ tokenRequests[i].page = "LoginPage"
    /\ LET call == tokenRequests[i]
       IN /\ sessionStorage' = setContactNumber(removeAuthenticationSession(sessionStorage),
                                                call.updatedAuth.MobileNumber)
          /\ loginPage' = IF call.attached
                            THEN [ loginPage EXCEPT !.showOtpForm = FALSE ]
                            ELSE loginPage
          /\ lastEvent' = Event("loginTokenResolves",
                                [ mobileNumber |-> call.updatedAuth.MobileNumber,
                                  token |-> token ])
    /\ loader' = TRUE
    /\ toast' = "Login successful!"
    /\ tokenRequests' = RemoveAt(tokenRequests, i)
    /\ UNCHANGED <<now, route, mounted, emailPage, generateOtpTimeout, otpRequests,
                   sessionExpiredTimeout>>

\* the login token call rejects with ZMAUT23 or ZMAUT28: the session record is
\* saved and the router goes to the email page
loginTokenRejectsNotFound(i, error) ==
    /\ i \in 1..Len(tokenRequests)
    /\ tokenRequests[i].page = "LoginPage"
    /\ checkIfErrorCodeRetured(error) \in {"ZMAUT23", "ZMAUT28"}
    /\ LET call == tokenRequests[i]
           authSession == [ auth |-> call.updatedAuth, waOpted |-> call.waOpted, issuedAt |-> now ]
           st == setAuthenticationSession(sessionStorage, authSession)
       IN /\ IF mounted = "EmailPage"
               THEN /\ sessionStorage' = st
                    /\ tokenRequests' = RemoveAt(tokenRequests, i)
                    /\ loader' = FALSE
                    /\ UNCHANGED <<route, mounted, loginPage, emailPage,
                                   generateOtpTimeout, otpRequests>>
               ELSE MountEmailPage(st, RemoveAt(tokenRequests, i))
          /\ lastEvent' = Event("loginTokenRejectsNotFound",
                                [ attached |-> call.attached,
                                  page |-> mounted,
                                  otpFormOpen |-> loginPage.showOtpForm,
                                  current |-> loginPage.authentication,
                                  sent |-> call.updatedAuth ])
    /\ UNCHANGED <<now, toast, sessionExpiredTimeout>>

\* loginTokenRejects closing the OTP form as the not-found branch does
loginTokenRejects_ClosesForm(i, error) ==
    /\ i \in 1..Len(tokenRequests)
    /\ tokenRequests[i].page = "LoginPage"
    /\ checkIfErrorCodeRetured(error) \notin {"ZMAUT23", "ZMAUT28"}
    /\ LET call == tokenRequests[i]
           errorCode == checkIfErrorCodeRetured(error)
           message ==
               IF errorCode = "ZMAUT30" THEN AuthenticationV2ErrorMessages(errorCode)
               ELSE IF errorCode = "ZMAUT02"
                 THEN IF call.retryOtpAttempts >= 3
                        THEN "Incorrect OTP. Please enter the verification code again"
                        ELSE AuthenticationV2ErrorMessages(errorCode)
               ELSE IF errorCode # ""
                 THEN IF AuthenticationV2ErrorMessages(errorCode) # ""
                        THEN AuthenticationV2ErrorMessages(errorCode)
                        ELSE "Something went wrong"
               ELSE "Something went wrong. Please try again."
       IN /\ loginPage' = IF call.attached
                            THEN [ loginPage EXCEPT !.errorMessage = message, !.showOtpForm = FALSE ]
                            ELSE loginPage
          /\ lastEvent' = Event("loginTokenRejects",
                                [ errorCode |-> errorCode,
                                  otpFormOpen |-> loginPage.showOtpForm,
                                  otpCallFinished |-> loginPage.hasOtpCallFinished ])
    /\ loader' = FALSE
    /\ tokenRequests' = RemoveAt(tokenRequests, i)
    /\ UNCHANGED <<now, sessionStorage, route, mounted, emailPage, toast,
                   generateOtpTimeout, otpRequests, sessionExpiredTimeout>>

\* the login token call rejects with any other error: the message branches
loginTokenRejects(i, error) ==
    /\ i \in 1..Len(tokenRequests)
    /\ tokenRequests[i].page = "LoginPage"
    /\ checkIfErrorCodeRetured(error) \notin {"ZMAUT23", "ZMAUT28"}
    /\ LET call == tokenRequests[i]
           errorCode == checkIfErrorCodeRetured(error)
           message ==
               IF errorCode = "ZMAUT30" THEN AuthenticationV2ErrorMessages(errorCode)
               ELSE IF errorCode = "ZMAUT02"
                 THEN IF call.retryOtpAttempts >= 3
                        THEN "Incorrect OTP. Please enter the verification code again"
                        ELSE AuthenticationV2ErrorMessages(errorCode)
               ELSE IF errorCode # ""
                 THEN IF AuthenticationV2ErrorMessages(errorCode) # ""
                        THEN AuthenticationV2ErrorMessages(errorCode)
                        ELSE "Something went wrong"
               ELSE "Something went wrong. Please try again."
       IN /\ loginPage' = IF call.attached
                            THEN [ loginPage EXCEPT !.errorMessage = message ]
                            ELSE loginPage
          /\ lastEvent' = Event("loginTokenRejects",
                                [ errorCode |-> errorCode,
                                  otpFormOpen |-> loginPage.showOtpForm,
                                  otpCallFinished |-> loginPage.hasOtpCallFinished ])
    /\ loader' = FALSE
    /\ tokenRequests' = RemoveAt(tokenRequests, i)
    /\ UNCHANGED <<now, sessionStorage, route, mounted, emailPage, toast,
                   generateOtpTimeout, otpRequests, sessionExpiredTimeout>>

\* resendOtp, called by the OTP form
resendOtp ==
    /\ LoginUsable
    /\ loginPage.showOtpForm
    /\ loginPage' = [ loginPage EXCEPT !.retryOtpAttempts = 0, !.errorMessage = "" ]
    /\ generateOtpTimeout' =
           IF Truthy(loginPage.authentication.MobileNumber)
             THEN generateOtp(loginPage.authentication.MobileNumber)
             ELSE generateOtpTimeout
    /\ lastEvent' = Event("resendOtp", Nothing)
    /\ UNCHANGED <<now, sessionStorage, route, mounted, emailPage, loader, toast,
                   otpRequests, tokenRequests, sessionExpiredTimeout>>

\* closeOtpModal, called by the OTP form
closeOtpModal ==
    /\ LoginUsable
    /\ loginPage.showOtpForm
    /\ loginPage' = [ loginPage EXCEPT !.showOtpForm = FALSE, !.errorMessage = "" ]
    /\ lastEvent' = Event("closeOtpModal", Nothing)
    /\ UNCHANGED <<now, sessionStorage, route, mounted, emailPage, loader, toast,
                   generateOtpTimeout, otpRequests, tokenRequests, sessionExpiredTimeout>>

(***************************************************************************)
(* EmailPage (routes/EmailPage)                                             *)
(***************************************************************************)

EmailUsable == mounted = "EmailPage" /\ emailPage.sessionChecked /\ ~loader

\* sessionCheckEffect restoring whatever record the store holds, whatever its age
sessionCheckEffect_AnyAge ==
    /\ mounted = "EmailPage"
    /\ ~emailPage.isInitialized
    /\ LET authSession == getAuthenticationSession(sessionStorage)
       IN /\ IF authSession # NULL
               THEN /\ emailPage' = [ emailPage EXCEPT
                                        !.isInitialized = TRUE,
                                        !.authentication = authSession.auth,
                                        !.waOpted = authSession.waOpted,
                                        !.sessionChecked = TRUE ]
                    /\ loader' = FALSE
                    /\ UNCHANGED <<sessionStorage, route, mounted, loginPage,
                                   generateOtpTimeout, otpRequests, tokenRequests>>
               ELSE MountLoginPage(sessionStorage, tokenRequests)
          /\ lastEvent' = Event("sessionCheckEffect",
                                [ item |-> sessionStorage.AUTHENTICATION, at |-> now ])
    /\ UNCHANGED <<now, toast, sessionExpiredTimeout>>

\* the session check effect, run once useAuthServices reports isInitialized
sessionCheckEffect ==
    /\ mounted = "EmailPage"
    /\ ~emailPage.isInitialized
    /\ LET authSession == getAuthenticationSession(sessionStorage)
       IN /\ IF isValidAuthSessionStorage(sessionStorage, now) /\ authSession # NULL
               THEN /\ emailPage' = [ emailPage EXCEPT
                                        !.isInitialized = TRUE,
                                        !.authentication = authSession.auth,
                                        !.waOpted = authSession.waOpted,
                                        !.sessionChecked = TRUE ]
                    /\ loader' = FALSE
                    /\ UNCHANGED <<sessionStorage, route, mounted, loginPage,
                                   generateOtpTimeout, otpRequests, tokenRequests>>
               ELSE MountLoginPage(sessionStorage, tokenRequests)
          /\ lastEvent' = Event("sessionCheckEffect",
                                [ item |-> sessionStorage.AUTHENTICATION, at |-> now ])
    /\ UNCHANGED <<now, toast, sessionExpiredTimeout>>

\* handleEmailSubmit up to its await, its state updates applied to the page
\* state `page` that the caller's own updates have produced
handleEmailSubmitFrom(page, email, consent, waConsent) ==
    /\ EmailUsable
    /\ emailPage.authError = NoAuthError
    /\ ~emailPage.showLogoutConfirmModal
    /\ LET updatedAuth == [ emailPage.authentication EXCEPT !.Email = email ]
           acrValues == [ loanApplicationId |-> "", merchantId |-> "",
                          encryptedMerchantId |-> "", MerchantCustomerId |-> "",
                          loginContext |-> 2, qType |-> "panIdentifier", qValue |-> "" ]
       IN IF emailPage.isSubmitting
            THEN /\ emailPage' = page
                 /\ UNCHANGED tokenRequests
            ELSE /\ emailPage' = [ page EXCEPT
                                     !.isSubmitting = TRUE,
                                     !.incomeConsent = consent,
                                     !.waOpted = waConsent,
                                     !.authentication = updatedAuth ]
                 /\ tokenRequests' = Append(tokenRequests,
                        [ page |-> "EmailPage",
                          attached |-> TRUE,
                          updatedAuth |-> updatedAuth,
                          waOpted |-> waConsent,
                          retryOtpAttempts |-> 0,
                          request |-> TokenRequest(updatedAuth, TRUE, FALSE, acrValues, "2") ])
    /\ lastEvent' = Event("handleEmailSubmit", Nothing)
    /\ UNCHANGED <<now, sessionStorage, route, mounted, loginPage, loader, toast,
                   generateOtpTimeout, otpRequests, sessionExpiredTimeout>>

\* handleEmailSubmit, called by the email form
handleEmailSubmit(email, consent, waConsent) ==
    handleEmailSubmitFrom(emailPage, email, consent, waConsent)

\* the signup token call resolves: the rest of handleEmailSubmit's try block,
\* ending in setZestToken's redirect, which unloads the application
signupTokenResolves(i, token) ==
    /\ i \in 1..Len(tokenRequests)
    /\ tokenRequests[i].page = "EmailPage"
    /\ LET call == tokenRequests[i]
       IN /\ sessionStorage' =
                 setZestTokenItem(
                     setSignUpFlag(
                         setContactNumber(removeAuthenticationSession(sessionStorage),
                                          call.updatedAuth.MobileNumber),
                         TRUE),
                     token)
          /\ lastEvent' = Event("signupTokenResolves",
                                [ mobileNumber |-> call.updatedAuth.MobileNumber,
                                  token |-> token ])
    /\ loader' = TRUE
    /\ toast' = "Registration successful!"
    /\ route' = "/loggedinredirect"
    /\ mounted' = "none"
    /\ loginPage' = LoginInitial
    /\ emailPage' = EmailInitial
    /\ generateOtpTimeout' = NoTimer
    /\ otpRequests' = << >>
    /\ tokenRequests' = << >>
    /\ sessionExpiredTimeout' = FALSE
    /\ UNCHANGED now

\* the signup token call rejects: handleEmailSubmit's catch block
signupTokenRejects(i, error) ==
    /\ i \in 1..Len(tokenRequests)
    /\ tokenRequests[i].page = "EmailPage"
    /\ LET call == tokenRequests[i]
           errorCode == checkIfErrorCodeRetured(error)
           authError ==
               IF errorCode = "ZMAUT25" THEN [ heading |-> "Email ID belongs to another user" ]
               ELSE IF errorCode = "ZMAUT02" THEN [ heading |-> "Session Expired" ]
               ELSE emailPage.authError
       IN /\ emailPage' = IF call.attached
                            THEN [ emailPage EXCEPT !.authError = authError,
                                                    !.isSubmitting = FALSE ]
                            ELSE emailPage
          /\ sessionExpiredTimeout' = IF errorCode = "ZMAUT02" THEN TRUE ELSE sessionExpiredTimeout
          /\ toast' = IF errorCode \notin {"ZMAUT25", "ZMAUT02"}
                        THEN "Registration failed. Please try again."
                        ELSE toast
          /\ lastEvent' = Event("signupTokenRejects",
                                [ errorCode |-> errorCode, attached |-> call.attached ])
    /\ loader' = FALSE
    /\ tokenRequests' = RemoveAt(tokenRequests, i)
    /\ UNCHANGED <<now, sessionStorage, route, mounted, loginPage,
                   generateOtpTimeout, otpRequests>>

\* the 2000 ms timer of the ZMAUT02 branch fires
sessionExpiredTimeoutFires ==
    /\ sessionExpiredTimeout
    /\ sessionExpiredTimeout' = FALSE
    /\ IF mounted = "LoginPage"
         THEN /\ sessionStorage' = removeAuthenticationSession(sessionStorage)
              /\ UNCHANGED <<route, mounted, loginPage, emailPage, loader,
                             generateOtpTimeout, otpRequests, tokenRequests>>
         ELSE MountLoginPage(removeAuthenticationSession(sessionStorage), tokenRequests)
    /\ lastEvent' = Event("sessionExpiredTimeoutFires", Nothing)
    /\ UNCHANGED <<now, toast>>

\* the AuthErrorComponent's onClose
closeAuthError ==
    /\ EmailUsable
    /\ emailPage.authError # NoAuthError
    /\ emailPage' = [ emailPage EXCEPT !.authError = NoAuthError ]
    /\ lastEvent' = Event("closeAuthError", Nothing)
    /\ UNCHANGED <<now, sessionStorage, route, mounted, loginPage, loader, toast,
                   generateOtpTimeout, otpRequests, tokenRequests, sessionExpiredTimeout>>

\* a backward navigation with no popstate listener: the router goes back to "/"
handlePopState_Leaves ==
    /\ mounted = "EmailPage"
    /\ emailPage.sessionChecked
    /\ MountLoginPage(sessionStorage, tokenRequests)
    /\ lastEvent' = Event("handlePopState", Nothing)
    /\ UNCHANGED <<now, toast, sessionExpiredTimeout>>

\* handlePopState: the browser's back button on the email page
handlePopState ==
    /\ mounted = "EmailPage"
    /\ emailPage.sessionChecked
    /\ emailPage' = [ emailPage EXCEPT !.showLogoutConfirmModal = TRUE ]
    /\ lastEvent' = Event("handlePopState", Nothing)
    /\ UNCHANGED <<now, sessionStorage, route, mounted, loginPage, loader, toast,
                   generateOtpTimeout, otpRequests, tokenRequests, sessionExpiredTimeout>>

\* handleLogoutConfirm: "Yes, Log Out"
handleLogoutConfirm ==
    /\ EmailUsable
    /\ emailPage.showLogoutConfirmModal
    /\ MountLoginPage(removeAuthenticationSession(sessionStorage), tokenRequests)
    /\ lastEvent' = Event("handleLogoutConfirm", Nothing)
    /\ UNCHANGED <<now, toast, sessionExpiredTimeout>>

\* handleLogoutCancel: "Cancel", the close button or a swipe down
handleLogoutCancel ==
    /\ EmailUsable
    /\ emailPage.showLogoutConfirmModal
    /\ emailPage' = [ emailPage EXCEPT !.showLogoutConfirmModal = FALSE ]
    /\ lastEvent' = Event("handleLogoutCancel", Nothing)
    /\ UNCHANGED <<now, sessionStorage, route, mounted, loginPage, loader, toast,
                   generateOtpTimeout, otpRequests, tokenRequests, sessionExpiredTimeout>>

(***************************************************************************)
(* PhoneNumberSignInV3Complete (components/auth/PhoneNumberSignInV3Complete)*)
(* the one component RedirectComponent mounts for "/" and for "/email".     *)
(* Between two events authenticationRef.current equals the authentication   *)
(* state (the effect on [authentication] copies it after every render), and *)
(* every callback is the one of the latest render; a handler that runs      *)
(* after an await sees the state of the render it was called in, which the  *)
(* call in flight carries as its closure.                                   *)
(***************************************************************************)

Complete == "PhoneNumberSignInV3Complete"

\* ---- bounds and input domains of the single-component flow
MaxSignInAttempts == 2
CompleteMobileInputs == {"9876543210", "98765"}

NoToken == [ access_token |-> "" ]

\* the initial React state of the component; enterEmailSubmitInProgress is
\* isSubmitInProgress of its EnterEmailV3 child
SignInInitial ==
    [ authentication |-> NewAuthentication,
      errorMessage |-> "",
      showEmailOptions |-> FALSE,
      retryOtpAttemts |-> 0,
      waOpted |-> TRUE,
      incomeConsent |-> FALSE,
      qValue |-> "",
      hasOtpCallFinished |-> FALSE,
      isSubmitInProgress |-> FALSE,
      showOtpForm |-> FALSE,
      authError |-> NoAuthError,
      showLogoutConfirmModal |-> FALSE,
      enterEmailSubmitInProgress |-> FALSE ]

\* RedirectInitialize writing the sign-up flag as set
RedirectInitialize_SignedUp(st) == [ st EXCEPT !.SIGN_UP = StringItem("true") ]

\* RedirectComponent's initialize effect, which runs on mount and whenever
\* location.pathname changes
RedirectInitialize(st) == [ st EXCEPT !.SIGN_UP = StringItem("false") ]

\* the URL <-> state sync effect, case 1: the pathname it leaves after a render
\* in which showEmailOptions went from prevShowEmailOptions to showEmailOptions
SyncedPathname(prevShowEmailOptions, showEmailOptions, pathname) ==
    IF showEmailOptions # prevShowEmailOptions
      THEN IF showEmailOptions /\ pathname # "/email" THEN "/email"
           ELSE IF ~showEmailOptions /\ pathname = "/email" THEN "/"
           ELSE pathname
      ELSE pathname

\* the render that follows a handler: next is the state the handler set, st
\* the store it left; EnterEmailV3 is unmounted while showEmailOptions is false
Commit(st, next) ==
    LET pathname == SyncedPathname(signIn.showEmailOptions, next.showEmailOptions, route)
    IN /\ signIn' = [ next EXCEPT !.enterEmailSubmitInProgress =
                                      IF next.showEmailOptions THEN @ ELSE FALSE ]
       /\ route' = pathname
       /\ sessionStorage' = IF pathname # route THEN RedirectInitialize(st) ELSE st

CompleteFrame == UNCHANGED <<mounted, loginPage, emailPage, loader, toast, sessionExpiredTimeout>>

\* no modal covers the forms and no zero-delay timer is pending
CompleteUsable ==
    /\ mounted = Complete
    /\ signIn.authError = NoAuthError
    /\ ~signIn.showLogoutConfirmModal
    /\ ~signUpTimeout

\* RedirectComponent initializes and mounts the component at "/" or "/email"
MountComplete ==
    /\ mounted = "none"
    /\ route \in {"/", "/email"}
    /\ LET st == RedirectInitialize(sessionStorage)
           shouldShowEmailOptions == isValidAuthSessionStorage(st, now)
       IN /\ signIn' = [ SignInInitial EXCEPT !.showEmailOptions = shouldShowEmailOptions ]
          /\ route' = SyncedPathname(FALSE, shouldShowEmailOptions, route)
          /\ sessionStorage' = st
          /\ lastEvent' = Event("MountComplete",
                                [ item |-> sessionStorage.AUTHENTICATION, at |-> now ])
    /\ mounted' = Complete
    /\ loader' = FALSE
    /\ UNCHANGED <<now, loginPage, emailPage, toast, generateOtpTimeout, otpRequests,
                   tokenRequests, sessionExpiredTimeout, signUpTimeout, emitted>>

\* the user reloads the tab or enters one of the application's URLs
Complete_Reload(url) ==
    /\ Reload(url)
    /\ signIn' = SignInInitial
    /\ signUpTimeout' = FALSE
    /\ UNCHANGED emitted

\* time passes; the timers have fired by then
Complete_Tick ==
    /\ ~signUpTimeout
    /\ Tick
    /\ UNCHANGED completeVars

\* the browser's back or forward button: the URL <-> state sync effect, case 2
Complete_popstate(pathname) ==
    /\ mounted = Complete
    /\ ~signUpTimeout
    /\ pathname # route
    /\ LET st == RedirectInitialize(sessionStorage)
       IN IF pathname = "/email" /\ ~signIn.showEmailOptions
            THEN /\ signIn' = [ signIn EXCEPT !.showEmailOptions =
                                                  isValidAuthSessionStorage(st, now) ]
                 /\ route' = pathname
            ELSE IF pathname = "/" /\ signIn.showEmailOptions /\ ~signIn.showLogoutConfirmModal
            THEN /\ signIn' = [ signIn EXCEPT !.showLogoutConfirmModal = TRUE ]
                 /\ route' = "/email"
            ELSE /\ route' = pathname
                 /\ UNCHANGED signIn
    /\ sessionStorage' = RedirectInitialize(sessionStorage)
    /\ lastEvent' = Event("popstate", Nothing)
    /\ CompleteFrame
    /\ UNCHANGED <<now, generateOtpTimeout, otpRequests, tokenRequests, signUpTimeout, emitted>>

\* setMobileNumber, called by the mobile form (onGenerateOtp)
setMobileNumber(mobileNumber) ==
    /\ CompleteUsable
    /\ ~signIn.showEmailOptions
    /\ ~signIn.showOtpForm
    /\ IF IsTenDigits(mobileNumber)
         THEN /\ Commit(sessionStorage,
                        [ signIn EXCEPT !.authentication.MobileNumber = mobileNumber ])
              /\ generateOtpTimeout' = generateOtp(mobileNumber)
         ELSE /\ Commit(sessionStorage, signIn)
              /\ UNCHANGED generateOtpTimeout
    /\ lastEvent' = Event("setMobileNumber", Nothing)
    /\ CompleteFrame
    /\ UNCHANGED <<now, otpRequests, tokenRequests, signUpTimeout, emitted>>

\* the debounce timer fires: callGenerateOtp(mobileNumber) up to its await
Complete_callGenerateOtp ==
    /\ mounted = Complete
    /\ ~signUpTimeout
    /\ generateOtpTimeout.pending
    /\ Len(otpRequests) + Len(tokenRequests) < MaxInFlight
    /\ LET mobile == IF Truthy(generateOtpTimeout.mobileNumber)
                       THEN generateOtpTimeout.mobileNumber
                       ELSE signIn.authentication.MobileNumber
       IN IF IsTenDigits(mobile)
            THEN /\ Commit(sessionStorage,
                           [ signIn EXCEPT !.authentication.Otp = "",
                                           !.authentication.OtpId = "",
                                           !.showOtpForm = TRUE,
                                           !.hasOtpCallFinished = FALSE ])
                 /\ otpRequests' = Append(otpRequests, [ mobileNumber |-> mobile ])
            ELSE /\ Commit(sessionStorage,
                           [ signIn EXCEPT !.errorMessage =
                                               AuthenticationV2ErrorMessages("ZMAUT17") ])
                 /\ UNCHANGED otpRequests
    /\ generateOtpTimeout' = NoTimer
    /\ lastEvent' = Event("callGenerateOtp", Nothing)
    /\ CompleteFrame
    /\ UNCHANGED <<now, tokenRequests, signUpTimeout, emitted>>

\* triggerOtpViaSmsV2 resolves: the rest of callGenerateOtp's try block
Complete_triggerOtpResolves(i, OtpId, ShowMfaChallenge) ==
    /\ mounted = Complete
    /\ i \in 1..Len(otpRequests)
    /\ Commit(sessionStorage,
              [ signIn EXCEPT !.authentication.MobileNumber = otpRequests[i].mobileNumber,
                              !.authentication.OtpId = OtpId,
                              !.authentication.ShowMfaChallenge = ShowMfaChallenge,
                              !.hasOtpCallFinished = TRUE ])
    /\ otpRequests' = RemoveAt(otpRequests, i)
    /\ lastEvent' = Event("triggerOtpResolves", Nothing)
    /\ CompleteFrame
    /\ UNCHANGED <<now, generateOtpTimeout, tokenRequests, signUpTimeout, emitted>>

\* triggerOtpViaSmsV2 rejects: callGenerateOtp's catch block
Complete_triggerOtpRejects(i, error) ==
    /\ mounted = Complete
    /\ i \in 1..Len(otpRequests)
    /\ LET errorCode == checkIfErrorCodeRetured(error)
       IN Commit(sessionStorage,
                 [ signIn EXCEPT !.showOtpForm = FALSE,
                                 !.hasOtpCallFinished = FALSE,
                                 !.errorMessage =
                                     IF errorCode # "" /\ AuthenticationV2ErrorMessages(errorCode) # ""
                                       THEN AuthenticationV2ErrorMessages(errorCode)
                                       ELSE @ ])
    /\ otpRequests' = RemoveAt(otpRequests, i)
    /\ lastEvent' = Event("triggerOtpRejects", Nothing)
    /\ CompleteFrame
    /\ UNCHANGED <<now, generateOtpTimeout, tokenRequests, signUpTimeout, emitted>>

\* getTokenUsingAcrValues(signUp, consent) of the render whose state is s, up
\* to its await: the call it leaves in flight; ref is authenticationRef.current
getTokenUsingAcrValues(s, ref, signUp, consent) ==
    LET acrValues == [ loanApplicationId |-> "", merchantId |-> "",
                       encryptedMerchantId |-> "", MerchantCustomerId |-> "",
                       loginContext |-> 2, qType |-> "panIdentifier", qValue |-> s.qValue ]
        currentAuth == IF Truthy(ref.Otp) /\ ~signUp
                         THEN [ ref EXCEPT !.Email = "", !.Password = "" ]
                         ELSE ref
    IN [ page |-> Complete,
         isSignup |-> signUp,
         consent |-> consent,
         currentAuth |-> currentAuth,
         closure |-> [ authentication |-> s.authentication,
                       waOpted |-> s.waOpted,
                       showEmailOptions |-> s.showEmailOptions,
                       retryOtpAttemts |-> s.retryOtpAttemts ],
         request |-> TokenRequest(currentAuth, signUp, FALSE, acrValues, "2") ]

\* verifyOtp, called by the OTP form's submit
Complete_verifyOtp(otp, pan) ==
    /\ CompleteUsable
    /\ signIn.showOtpForm
    /\ signIn.hasOtpCallFinished
    /\ signIn.retryOtpAttemts < MaxSignInAttempts
    /\ Len(otpRequests) + Len(tokenRequests) < MaxInFlight
    /\ LET updatedAuth == [ signIn.authentication EXCEPT !.Otp = otp ]
           rendered == [ signIn EXCEPT !.authentication = updatedAuth, !.qValue = pan ]
       IN IF IsSixDigits(otp) /\ (updatedAuth.ShowMfaChallenge => IsFourChars(pan))
            THEN /\ Commit(sessionStorage, [ rendered EXCEPT !.retryOtpAttemts = @ + 1 ])
                 /\ tokenRequests' = Append(tokenRequests,
                        getTokenUsingAcrValues(signIn, updatedAuth, FALSE, FALSE))
            ELSE /\ Commit(sessionStorage, rendered)
                 /\ UNCHANGED tokenRequests
    /\ lastEvent' = Event("verifyOtp", Nothing)
    /\ CompleteFrame
    /\ UNCHANGED <<now, generateOtpTimeout, otpRequests, signUpTimeout, emitted>>

\* setAuthSessionStorage stamping the time whatever reuseIssuedAt says
setAuthSessionStorage_AlwaysStamps(st, closure, t, reuseIssuedAt) ==
    [ st EXCEPT !.AUTHENTICATION =
        JSONstringify([ auth |-> closure.authentication,
                        waOpted |-> closure.waOpted,
                        issuedAt |-> t ]) ]

\* setAuthSessionStorage(reuseIssuedAt) of the render whose state is closure,
\* at time t; a stored text that does not parse throws inside the try block
setAuthSessionStorage(st, closure, t, reuseIssuedAt) ==
    LET tokenString == st.AUTHENTICATION
    IN  IF reuseIssuedAt /\ tokenString # NoItem
          THEN IF JSONparseThrows(tokenString)
                 THEN st
                 ELSE [ st EXCEPT !.AUTHENTICATION =
                          JSONstringify([ auth |-> JSONparse(tokenString).auth,
                                          waOpted |-> closure.waOpted,
                                          issuedAt |-> JSONparse(tokenString).issuedAt ]) ]
          ELSE [ st EXCEPT !.AUTHENTICATION =
                   JSONstringify([ auth |-> closure.authentication,
                                   waOpted |-> closure.waOpted,
                                   issuedAt |-> t ]) ]

\* the token call resolves: the rest of getTokenUsingAcrValues' try block,
\* the consent post (whose failure is only logged) included; emitGetToken
\* hands the token to onGetToken
Complete_tokenResolves(i, token) ==
    /\ mounted = Complete
    /\ i \in 1..Len(tokenRequests)
    /\ LET call == tokenRequests[i]
           st == setContactNumber(removeAuthenticationSession(sessionStorage),
                                  call.currentAuth.MobileNumber)
       IN /\ Commit(IF call.isSignup THEN setSignUpFlag(st, TRUE) ELSE st,
                    [ signIn EXCEPT !.showOtpForm = FALSE ])
          /\ lastEvent' = Event("tokenResolves",
                                [ mobileNumber |-> call.currentAuth.MobileNumber,
                                  isSignup |-> call.isSignup,
                                  token |-> token ])
    /\ emitted' = token
    /\ tokenRequests' = RemoveAt(tokenRequests, i)
    /\ CompleteFrame
    /\ UNCHANGED <<now, generateOtpTimeout, otpRequests, signUpTimeout>>

\* the token call rejects with ZMAUT23 or ZMAUT28: the email step is shown and
\* the session record is written
Complete_tokenRejectsNotFound(i, error) ==
    /\ mounted = Complete
    /\ i \in 1..Len(tokenRequests)
    /\ checkIfErrorCodeRetured(error) \in {"ZMAUT23", "ZMAUT28"}
    /\ LET call == tokenRequests[i]
       IN /\ Commit(setAuthSessionStorage(sessionStorage, call.closure, now, FALSE),
                    [ signIn EXCEPT !.showEmailOptions = TRUE, !.showOtpForm = FALSE ])
          /\ lastEvent' = Event("tokenRejectsNotFound",
                                [ isSignup |-> call.isSignup,
                                  current |-> signIn.authentication,
                                  sent |-> call.currentAuth,
                                  emailStep |-> signIn.showEmailOptions ])
    /\ tokenRequests' = RemoveAt(tokenRequests, i)
    /\ CompleteFrame
    /\ UNCHANGED <<now, generateOtpTimeout, otpRequests, signUpTimeout, emitted>>

\* the token call rejects with any other error: the rest of the catch block
Complete_tokenRejects(i, error) ==
    /\ mounted = Complete
    /\ i \in 1..Len(tokenRequests)
    /\ checkIfErrorCodeRetured(error) \notin {"ZMAUT23", "ZMAUT28"}
    /\ LET call == tokenRequests[i]
           errorCode == checkIfErrorCodeRetured(error)
           message == IF AuthenticationV2ErrorMessages(errorCode) # ""
                        THEN AuthenticationV2ErrorMessages(errorCode)
                        ELSE "Something went wrong"
           coded ==
               IF errorCode = "" THEN signIn
               ELSE IF errorCode = "ZMAUT30" THEN [ signIn EXCEPT !.errorMessage = message ]
               ELSE IF ~call.closure.showEmailOptions
                 THEN [ signIn EXCEPT !.errorMessage = message ]
               ELSE IF errorCode = "ZMAUT25"
                 THEN [ signIn EXCEPT !.showEmailOptions = FALSE,
                                      !.errorMessage = "",
                                      !.authentication.Email = "",
                                      !.authError = [ heading |-> "Email ID belongs to another user" ],
                                      !.isSubmitInProgress = FALSE,
                                      !.incomeConsent = FALSE ]
               ELSE IF errorCode = "ZMAUT02"
                 THEN [ signIn EXCEPT !.showEmailOptions = FALSE,
                                      !.errorMessage = "",
                                      !.authError = [ heading |-> "OTP Invalid" ],
                                      !.isSubmitInProgress = FALSE,
                                      !.incomeConsent = FALSE ]
               ELSE [ signIn EXCEPT !.showEmailOptions = FALSE, !.errorMessage = "" ]
           next ==
               IF ~call.closure.showEmailOptions /\ errorCode = "ZMAUT02"
                    /\ call.closure.retryOtpAttemts >= 3
                 THEN [ coded EXCEPT !.errorMessage =
                            "Incorrect OTP. Please enter the verification code again" ]
                 ELSE coded
           st == IF errorCode \notin {"", "ZMAUT30"} /\ call.closure.showEmailOptions
                   THEN removeAuthenticationSession(sessionStorage)
                   ELSE sessionStorage
       IN /\ Commit(st, next)
          /\ lastEvent' = Event("tokenRejects", Nothing)
    /\ tokenRequests' = RemoveAt(tokenRequests, i)
    /\ CompleteFrame
    /\ UNCHANGED <<now, generateOtpTimeout, otpRequests, signUpTimeout, emitted>>

\* EnterEmailV3's submitEmail and the handleEmailSubmit it calls
Complete_handleEmailSubmit(email, consent, waConsent) ==
    /\ CompleteUsable
    /\ signIn.showEmailOptions
    /\ ~signIn.showOtpForm
    /\ ~signIn.enterEmailSubmitInProgress
    /\ consent
    /\ signIn.retryOtpAttemts < MaxSignInAttempts
    /\ Len(otpRequests) + Len(tokenRequests) < MaxInFlight
    /\ Commit(sessionStorage,
              [ signIn EXCEPT !.enterEmailSubmitInProgress = TRUE,
                              !.authentication.Email = email,
                              !.incomeConsent = consent,
                              !.waOpted = waConsent ])
    /\ signUpTimeout' = TRUE
    /\ lastEvent' = Event("handleEmailSubmit", Nothing)
    /\ CompleteFrame
    /\ UNCHANGED <<now, generateOtpTimeout, otpRequests, tokenRequests, emitted>>

\* the zero-delay timer of handleEmailSubmit fires: signUpUser up to its await.
\* The bundle read back from the store reaches the state only; the request is
\* built from authenticationRef.current as it is during the call.
signUpUser ==
    /\ mounted = Complete
    /\ signUpTimeout
    /\ signUpTimeout' = FALSE
    /\ LET email == signIn.authentication.Email
           restored ==
               IF ~Truthy(signIn.authentication.MobileNumber)
                    /\ sessionStorage.AUTHENTICATION # NoItem
                    /\ ~JSONparseThrows(sessionStorage.AUTHENTICATION)
                 THEN [ JSONparse(sessionStorage.AUTHENTICATION).auth EXCEPT !.Email = email ]
                 ELSE signIn.authentication
       IN IF signIn.isSubmitInProgress
            THEN /\ Commit(sessionStorage, signIn)
                 /\ UNCHANGED tokenRequests
            ELSE IF Truthy(email) /\ signIn.incomeConsent
            THEN /\ Commit(sessionStorage,
                           [ signIn EXCEPT !.isSubmitInProgress = TRUE,
                                           !.authentication = restored,
                                           !.retryOtpAttemts = @ + 1 ])
                 /\ tokenRequests' = Append(tokenRequests,
                        getTokenUsingAcrValues(signIn, signIn.authentication, TRUE, TRUE))
            ELSE /\ Commit(sessionStorage, [ signIn EXCEPT !.authentication = restored ])
                 /\ UNCHANGED tokenRequests
    /\ lastEvent' = Event("signUpUser",
                          [ sent |-> signIn.authentication,
                            item |-> sessionStorage.AUTHENTICATION ])
    /\ CompleteFrame
    /\ UNCHANGED <<now, generateOtpTimeout, otpRequests, emitted>>

\* resendOtp, called by the OTP form
Complete_resendOtp ==
    /\ CompleteUsable
    /\ signIn.showOtpForm
    /\ Commit(sessionStorage, [ signIn EXCEPT !.retryOtpAttemts = 0, !.errorMessage = "" ])
    /\ generateOtpTimeout' =
           IF Truthy(signIn.authentication.MobileNumber)
             THEN generateOtp(signIn.authentication.MobileNumber)
             ELSE generateOtpTimeout
    /\ lastEvent' = Event("resendOtp", Nothing)
    /\ CompleteFrame
    /\ UNCHANGED <<now, otpRequests, tokenRequests, signUpTimeout, emitted>>

\* closeOtpModal, called by the OTP form
Complete_closeOtpModal ==
    /\ CompleteUsable
    /\ signIn.showOtpForm
    /\ Commit(sessionStorage, [ signIn EXCEPT !.showOtpForm = FALSE, !.errorMessage = "" ])
    /\ lastEvent' = Event("closeOtpModal", Nothing)
    /\ CompleteFrame
    /\ UNCHANGED <<now, generateOtpTimeout, otpRequests, tokenRequests, signUpTimeout, emitted>>

\* the AuthErrorComponent's onClose
Complete_closeAuthError ==
    /\ mounted = Complete
    /\ signIn.authError # NoAuthError
    /\ Commit(sessionStorage, [ signIn EXCEPT !.authError = NoAuthError ])
    /\ lastEvent' = Event("closeAuthError", Nothing)
    /\ CompleteFrame
    /\ UNCHANGED <<now, generateOtpTimeout, otpRequests, tokenRequests, signUpTimeout, emitted>>

\* handleLogoutConfirm: "Yes, Log Out"
Complete_handleLogoutConfirm ==
    /\ mounted = Complete
    /\ signIn.showLogoutConfirmModal
    /\ signIn' = [ signIn EXCEPT !.showLogoutConfirmModal = FALSE,
                                 !.showEmailOptions = FALSE,
                                 !.showOtpForm = FALSE,
                                 !.enterEmailSubmitInProgress = FALSE ]
    /\ route' = "/"
    /\ sessionStorage' =
           IF route # "/"
             THEN RedirectInitialize(removeAuthenticationSession(sessionStorage))
             ELSE removeAuthenticationSession(sessionStorage)
    /\ lastEvent' = Event("handleLogoutConfirm", Nothing)
    /\ CompleteFrame
    /\ UNCHANGED <<now, generateOtpTimeout, otpRequests, tokenRequests, signUpTimeout, emitted>>

\* handleLogoutCancel: "Cancel", the close button or a swipe down
Complete_handleLogoutCancel ==
    /\ mounted = Complete
    /\ signIn.showLogoutConfirmModal
    /\ Commit(sessionStorage, [ signIn EXCEPT !.showLogoutConfirmModal = FALSE ])
    /\ lastEvent' = Event("handleLogoutCancel", Nothing)
    /\ CompleteFrame
    /\ UNCHANGED <<now, generateOtpTimeout, otpRequests, tokenRequests, signUpTimeout, emitted>>

(***************************************************************************)
(* FinoramicCallback (components/auth/FinoramicCallback) and its route     *)
(* (routes/FinoramicCallbackPage.tsx): the return from the third-party     *)
(* redirect                                                                *)
(***************************************************************************)

CallbackRoute == "/authentication/finoramic-callback"

\* \w
IsWordChar(ch) == indexOf(UpperCase \o LowerCase \o "0123456789_", ch) >= 0

\* \w+([separators]\w+)* over the whole of s: groups of word characters
\* joined by single separators
WordGroups(s, separators) ==
    /\ Len(s) > 0
    /\ \A i \in 1..Len(s) :
           IsWordChar(SubSeq(s, i, i)) \/ indexOf(separators, SubSeq(s, i, i)) >= 0
    /\ IsWordChar(SubSeq(s, 1, 1))
    /\ IsWordChar(SubSeq(s, Len(s), Len(s)))
    /\ \A i \in 1..(Len(s) - 1) :
           IsWordChar(SubSeq(s, i, i)) \/ IsWordChar(SubSeq(s, i + 1, i + 1))

\* helpers.ts isEmail: /^\w+([-+.']\w+)*@\w+([-.]\w+)*\.\w+([-.]\w+)*$/
isEmail(email) ==
    LET at == indexOf(email, "@")
        domain == substring(email, at + 1, Len(email))
    IN  /\ at >= 0
        /\ WordGroups(substring(email, 0, at), "-+.'")
        /\ WordGroups(domain, "-.")
        /\ indexOf(domain, ".") >= 0

\* decodeURIComponent, for texts whose only escape is %40
RECURSIVE decodeURIComponent(_)
decodeURIComponent(s) ==
    IF Len(s) = 0 THEN ""
    ELSE IF Len(s) >= 3 /\ SubSeq(s, 1, 3) = "%40"
      THEN "@" \o decodeURIComponent(SubSeq(s, 4, Len(s)))
    ELSE SubSeq(s, 1, 1) \o decodeURIComponent(SubSeq(s, 2, Len(s)))

\* the email query parameter of the callback URL as searchParams.get returns
\* it, "" when the parameter is absent
RedirectEmails == {"", "user@gmail.com", "user%40gmail.com", "not-an-email"}

\* the records the email step leaves in the store before the redirect
CallbackRecords ==
    { [ auth |-> [ NewAuthentication EXCEPT !.MobileNumber = mobileNumber,
                                            !.Otp = otp,
                                            !.OtpId = OtpId,
                                            !.ShowMfaChallenge = ShowMfaChallenge ],
        waOpted |-> waOpted,
        issuedAt |-> 0 ] :
      mobileNumber \in Mobiles, otp \in Otps, OtpId \in OtpIds,
      ShowMfaChallenge \in BOOLEAN, waOpted \in BOOLEAN }

\* the React state of the component before it is mounted
FinoramicIdle ==
    [ mounted |-> FALSE,
      email |-> "",
      authentication |-> NewAuthentication,
      waOpted |-> TRUE,
      pending |-> NotBuilt,
      token |-> NoToken,
      authError |-> NoAuthError,
      redirectTimeout |-> FALSE ]

\* new AcrValues('', '', '', '', 2, qType, qValue) of the page, which passes
\* undefined for the four identifiers
CallbackAcrValues ==
    [ loanApplicationId |-> "", merchantId |-> "", encryptedMerchantId |-> "",
      MerchantCustomerId |-> "", loginContext |-> 2, qType |-> "panIdentifier", qValue |-> "" ]

\* FinoramicCallbackPage.handleAuthError: the modal it opens
handleAuthError(nullError, errorCode) ==
    IF nullError \/ errorCode \in {"ZMAUT23", "ZMAUT28"}
      THEN [ heading |-> "Email ID not found" ]
    ELSE IF errorCode = "ZMAUT25"
      THEN [ heading |-> "Email ID belongs to another user" ]
    ELSE [ heading |-> "OTP Invalid" ]

\* the component mounts: its first render holds new Authentication() and
\* waOpted true; the restore effect and the email effect then run in that
\* order. Both setAuthentication calls are queued for the next render, so the
\* getTokenUsingAcrValues the email effect calls is the callback of the first
\* render and reads the first render's authentication.
MountFinoramicCallback ==
    /\ route = CallbackRoute
    /\ ~finoramic.mounted
    /\ LET authSession == getAuthenticationSession(sessionStorage)
           restored == IF authSession # NULL THEN authSession.auth ELSE NewAuthentication
           email == finoramic.email
           decodedEmail == decodeURIComponent(email)
           rendered == finoramic.authentication
       IN /\ finoramic' =
                 IF email # "" /\ isEmail(decodedEmail)
                   THEN [ finoramic EXCEPT
                            !.mounted = TRUE,
                            !.authentication = [ restored EXCEPT !.Email = decodedEmail ],
                            !.waOpted = IF authSession # NULL THEN authSession.waOpted ELSE @,
                            !.pending = [ authentication |-> rendered,
                                          waOpted |-> finoramic.waOpted,
                                          request |-> TokenRequest(rendered, TRUE, FALSE,
                                                                   CallbackAcrValues, "2") ] ]
                 ELSE [ finoramic EXCEPT
                            !.mounted = TRUE,
                            !.authentication = restored,
                            !.waOpted = IF authSession # NULL THEN authSession.waOpted ELSE @,
                            !.authError = IF email # "" THEN handleAuthError(TRUE, "") ELSE @,
                            !.redirectTimeout = email # "" ]
          /\ lastEvent' = Event("MountFinoramicCallback",
                                [ authSession |-> authSession, email |-> decodedEmail ])
    /\ UNCHANGED <<sessionStorage, route, loader, toast>>

\* the token call resolves: the rest of getTokenUsingAcrValues' try block,
\* with the authentication and waOpted the callback closed over
callbackTokenResolves(token) ==
    /\ finoramic.mounted
    /\ finoramic.pending # NotBuilt
    /\ sessionStorage' =
           setSignUpFlag(
               setContactNumber(removeAuthenticationSession(sessionStorage),
                                finoramic.pending.authentication.MobileNumber),
               TRUE)
    /\ finoramic' = [ finoramic EXCEPT !.pending = NotBuilt, !.token = token ]
    /\ loader' = TRUE
    /\ toast' = "Authentication successful!"
    /\ lastEvent' = Event("callbackTokenResolves", [ token |-> token ])
    /\ UNCHANGED route

\* the token call rejects: onHandleError(error)
callbackTokenRejects(error) ==
    /\ finoramic.mounted
    /\ finoramic.pending # NotBuilt
    /\ finoramic' = [ finoramic EXCEPT
                        !.pending = NotBuilt,
                        !.authError = handleAuthError(FALSE, checkIfErrorCodeRetured(error)),
                        !.redirectTimeout = TRUE ]
    /\ lastEvent' = Event("callbackTokenRejects",
                          [ errorCode |-> checkIfErrorCodeRetured(error) ])
    /\ UNCHANGED <<sessionStorage, route, loader, toast>>

\* the 200 ms timer of handleAuthError, or handleCloseError: navigate to the
\* email route, which unmounts the callback page
callbackLeaves ==
    /\ finoramic.mounted
    /\ finoramic.redirectTimeout \/ finoramic.authError # NoAuthError
    /\ route' = "/email"
    /\ finoramic' = [ FinoramicIdle EXCEPT !.email = finoramic.email ]
    /\ lastEvent' = Event("callbackLeaves", Nothing)
    /\ UNCHANGED <<sessionStorage, loader, toast>>

(***************************************************************************)
(* Session store operations on a browser store that throws                 *)
(* (utils/sessionStorage.ts, utils/helpers.ts, setAuthSessionStorage)      *)
(***************************************************************************)

\* what a call leaves: the store after it, whether an exception left the
\* function, and the value returned
StoreOutcome(st, threw, value) == [ st |-> st, threw |-> threw, value |-> value ]

\* sessionStorage.ts: the whole body of each function is inside try/catch
trySetAuthenticationSession(st, authSession, throws) ==
    StoreOutcome(IF throws THEN st ELSE setAuthenticationSession(st, authSession), FALSE, NULL)

tryGetAuthenticationSession(st, throws) ==
    StoreOutcome(st, FALSE, IF throws THEN NULL ELSE getAuthenticationSession(st))

tryRemoveAuthenticationSession(st, throws) ==
    StoreOutcome(IF throws THEN st ELSE removeAuthenticationSession(st), FALSE, NULL)

\* helpers.ts isValidAuthSessionStorage: sessionStorage.getItem is called
\* before the try block, which covers JSON.parse only
tryIsValidAuthSessionStorage(st, t, throws) ==
    IF throws
      THEN StoreOutcome(st, TRUE, NULL)
      ELSE StoreOutcome(st, FALSE, isValidAuthSessionStorage(st, t))

\* PhoneNumberSignInV3Complete.setAuthSessionStorage: getItem, JSON.parse and
\* setItem are all inside its try block
trySetAuthSessionStorage(st, closure, t, reuseIssuedAt, throws) ==
    StoreOutcome(IF throws THEN st ELSE setAuthSessionStorage(st, closure, t, reuseIssuedAt),
                 FALSE, NULL)

(***************************************************************************)
(* Error recovery engine (services/errorHandlingService.ts)                 *)
(***************************************************************************)

\* ---- bounds and input domains of the engine
RecoveryTickMs == 30000
MaxClock == 200000
MaxPending == 1

RecoveryCodes == {"SYS_002", "NET_001"}
\* the (code, context.sessionId) pairs recoverFromError is called with
RecoveryCalls == { <<"SYS_002", "">>, <<"SYS_002", "s1">>, <<"NET_001", "">> }
\* who calls the service's recoverFromError: the hook's recoverFromError (from
\* executeWithRecovery or retryLastOperation) or the 'retry' recovery action
\* that getRecoveryActions hands to the UI
RecoveryCallers == {"useErrorRecovery", "retryAction"}
RecoveryErrors ==
    { AuthErrorValue(code, "", retryable) :
          code \in RecoveryCodes, retryable \in {"undefined", "true", "false"} }

\* isCircuitBreakerOpen: const cooldownPeriod = 60000
cooldownPeriod == 60000
\* isCircuitBreakerOpen: breaker.failures >= 5
failureThreshold == 5

\* constants/errorCodes RETRY_CONFIG, and getRetryConfig's default
RETRY_CONFIG(errorCode) ==
    CASE errorCode = "NET_001" -> [ maxRetries |-> 3, delay |-> 1000, exponentialBackoff |-> TRUE ]
      [] errorCode = "NET_002" -> [ maxRetries |-> 2, delay |-> 2000, exponentialBackoff |-> TRUE ]
      [] errorCode = "SYS_001" -> [ maxRetries |-> 2, delay |-> 5000, exponentialBackoff |-> TRUE ]
      [] errorCode = "SYS_002" -> [ maxRetries |-> 1, delay |-> 10000, exponentialBackoff |-> FALSE ]
      [] errorCode = "OTP_004" -> [ maxRetries |-> 2, delay |-> 3000, exponentialBackoff |-> FALSE ]
      [] errorCode = "OTP_005" -> [ maxRetries |-> 2, delay |-> 5000, exponentialBackoff |-> FALSE ]
      [] OTHER -> NULL

getRetryConfig(errorCode) ==
    LET config == RETRY_CONFIG(errorCode)
    IN IF config # NULL
         THEN [ maxRetries |-> config.maxRetries, delay |-> config.delay,
                exponentialBackoff |-> config.exponentialBackoff, backoffMultiplier |-> 2 ]
         ELSE [ maxRetries |-> 2, delay |-> 1000,
                exponentialBackoff |-> TRUE, backoffMultiplier |-> 2 ]

\* canRecover with the switch on the category left out
canRecover_FlagOnly(error) == error.retryable = "true"

\* canRecover: the flag when it is set, else the switch on the category
canRecover(error) ==
    IF error.retryable # "undefined" THEN error.retryable = "true"
    ELSE classifyError(error) \in {"NETWORK", "RATE_LIMIT", "SYSTEM", "THIRD_PARTY"}

\* Math.pow(b, n)
RECURSIVE MathPow(_, _)
MathPow(b, n) == IF n = 0 THEN 1 ELSE b * MathPow(b, n - 1)

\* `${error.code}_${context?.sessionId || 'default'}`
attemptKeyOf(code, sessionId) ==
    code \o "_" \o (IF Truthy(sessionId) THEN sessionId ELSE "default")

\* the (code, sessionId) pair of an operation run through executeWithRecovery
\* with context {sessionId: 's1'} that fails with "Failed to fetch"
ExecuteCalls == { <<"NET_001", "s1">> }
AttemptKeys == { attemptKeyOf(call[1], call[2]) : call \in RecoveryCalls \cup ExecuteCalls }

NoBreaker == [ present |-> FALSE ]

\* variant of isCircuitBreakerOpen that opens only above the threshold
isCircuitBreakerOpen_Above(breakers, serviceKey, t) ==
    LET breaker == breakers[serviceKey]
    IN IF breaker = NoBreaker THEN FALSE
       ELSE breaker.failures > failureThreshold /\ t - breaker.lastFailure < cooldownPeriod

\* isCircuitBreakerOpen: its result at time t
isCircuitBreakerOpen(breakers, serviceKey, t) ==
    LET breaker == breakers[serviceKey]
    IN IF breaker = NoBreaker THEN FALSE
       ELSE breaker.failures >= failureThreshold /\ t - breaker.lastFailure < cooldownPeriod

\* variant of the check that never deletes an entry
afterCircuitBreakerCheck_Keep(breakers, serviceKey, t) == breakers

\* isCircuitBreakerOpen: the map it leaves behind (an entry whose cooldown has
\* passed is deleted)
afterCircuitBreakerCheck(breakers, serviceKey, t) ==
    LET breaker == breakers[serviceKey]
    IN IF breaker = NoBreaker THEN breakers
       ELSE IF breaker.failures >= failureThreshold /\ t - breaker.lastFailure < cooldownPeriod
         THEN breakers
       ELSE IF t - breaker.lastFailure >= cooldownPeriod
         THEN [ breakers EXCEPT ![serviceKey] = NoBreaker ]
       ELSE breakers

\* variant of recordCircuitBreakerFailure that keeps the time of the first failure
recordCircuitBreakerFailure_KeepTime(breakers, serviceKey, t) ==
    LET breaker == IF breakers[serviceKey] = NoBreaker
                     THEN [ present |-> TRUE, failures |-> 0, lastFailure |-> t, isOpen |-> FALSE ]
                     ELSE breakers[serviceKey]
    IN [ breakers EXCEPT ![serviceKey] =
           [ present |-> TRUE,
             failures |-> breaker.failures + 1,
             lastFailure |-> breaker.lastFailure,
             isOpen |-> breaker.failures + 1 >= failureThreshold ] ]

\* variant of recordCircuitBreakerFailure that starts every entry anew
recordCircuitBreakerFailure_Restart(breakers, serviceKey, t) ==
    [ breakers EXCEPT ![serviceKey] =
        [ present |-> TRUE, failures |-> 1, lastFailure |-> t, isOpen |-> FALSE ] ]

recordCircuitBreakerFailure(breakers, serviceKey, t) ==
    LET breaker == IF breakers[serviceKey] = NoBreaker
                     THEN [ present |-> TRUE, failures |-> 0, lastFailure |-> t, isOpen |-> FALSE ]
                     ELSE breakers[serviceKey]
    IN [ breakers EXCEPT ![serviceKey] =
           [ present |-> TRUE,
             failures |-> breaker.failures + 1,
             lastFailure |-> t,
             isOpen |-> breaker.failures + 1 >= failureThreshold ] ]

\* retryDelay raising the multiplier to the count after this attempt
retryDelay_CountAfter(retryConfig, currentAttempts) ==
    IF retryConfig.exponentialBackoff
      THEN retryConfig.delay * MathPow(retryConfig.backoffMultiplier, currentAttempts + 1)
      ELSE retryConfig.delay

\* the delay recoverFromError awaits
retryDelay(retryConfig, currentAttempts) ==
    IF retryConfig.exponentialBackoff
      THEN retryConfig.delay * MathPow(retryConfig.backoffMultiplier, currentAttempts)
      ELSE retryConfig.delay

\* history: the times of the last failureThreshold recorded failures
Logged(log, t) ==
    IF Len(log) < failureThreshold THEN Append(log, t) ELSE Append(Tail(log), t)

Outcome(name, seen) == [ name |-> name, seen |-> seen ]

\* recoverFromError up to its throw or its await
recoverFromError(error, sessionId, caller) ==
    LET retryConfig == getRetryConfig(error.code)
        attemptKey == attemptKeyOf(error.code, sessionId)
        currentAttempts == retryAttempts[attemptKey]
        checked == afterCircuitBreakerCheck(circuitBreakers, error.code, clock)
        delay == retryDelay(retryConfig, currentAttempts)
        seen == [ error |-> error, attemptKey |-> attemptKey, at |-> clock,
                  breaker |-> circuitBreakers[error.code],
                  attempts |-> currentAttempts,
                  pending |-> Len(recoveries) ]
    IN /\ attemptKey \in AttemptKeys
       /\ IF ~canRecover(error) \/ retryConfig = NULL
            THEN /\ outcome' = Outcome("recoverFromError", seen @@ [ thrown |-> "the error itself" ])
                 /\ UNCHANGED <<circuitBreakers, recoveries, failureLog>>
          ELSE IF isCircuitBreakerOpen(circuitBreakers, error.code, clock)
            THEN /\ circuitBreakers' = checked
                 /\ outcome' = Outcome("recoverFromError", seen @@ [ thrown |-> "CIRCUIT_BREAKER_OPEN" ])
                 /\ UNCHANGED <<recoveries, failureLog>>
          ELSE IF currentAttempts >= retryConfig.maxRetries
            THEN /\ circuitBreakers' = recordCircuitBreakerFailure(checked, error.code, clock)
                 /\ failureLog' = [ failureLog EXCEPT ![error.code] = Logged(@, clock) ]
                 /\ outcome' = Outcome("recoverFromError", seen @@ [ thrown |-> "MAX_RETRIES_EXCEEDED" ])
                 /\ UNCHANGED recoveries
          ELSE /\ circuitBreakers' = checked
               /\ recoveries' = Append(recoveries,
                      [ attemptKey |-> attemptKey, currentAttempts |-> currentAttempts,
                        delay |-> delay, due |-> clock + delay,
                        code |-> error.code, sessionId |-> sessionId, caller |-> caller ])
               /\ outcome' = Outcome("recoverFromError", seen @@ [ thrown |-> "" ])
               /\ UNCHANGED failureLog
       \* the hook reaches the service through handleError, which sets lastError
       /\ lastError' = IF caller = "useErrorRecovery" THEN error.code ELSE lastError
       /\ UNCHANGED <<clock, retryAttempts>>

\* the key the hook's recoverFromError clears after a recovery
hookAttemptKey(code, sessionId) == code \o "_" \o sessionId

\* Map.delete(key)
MapDelete(map, key) == IF key \in DOMAIN map THEN [ map EXCEPT ![key] = 0 ] ELSE map

\* the awaited delay of a suspended recoverFromError is over: it stores the
\* incremented count and returns
delayElapses(i) ==
    /\ i \in 1..Len(recoveries)
    /\ clock >= recoveries[i].due
    /\ LET r == recoveries[i]
           stored == [ retryAttempts EXCEPT ![r.attemptKey] = r.currentAttempts + 1 ]
       IN IF r.caller = "useErrorRecovery"
            \* the hook's recoverFromError resumes: setLastError(null) and
            \* clearRetryAttempts(`${error.code}_${errorContext.sessionId}`)
            THEN /\ retryAttempts' = MapDelete(stored, hookAttemptKey(r.code, r.sessionId))
                 /\ lastError' = ""
            ELSE /\ retryAttempts' = stored
                 /\ UNCHANGED lastError
    /\ recoveries' = RemoveAt(recoveries, i)
    /\ outcome' = Outcome("delayElapses", recoveries[i])
    /\ UNCHANGED <<clock, circuitBreakers, failureLog>>

\* executeWithRecovery: the operation (first run or the run after a recovery)
\* resolves; the hook clears its own error state and returns the result
operationSucceeds(code, sessionId) ==
    /\ lastError' = ""
    /\ outcome' = Outcome("operationSucceeds",
                          [ code |-> code, sessionId |-> sessionId,
                            attemptKey |-> attemptKeyOf(code, sessionId),
                            pending |-> Len(recoveries) ])
    /\ UNCHANGED <<clock, retryAttempts, circuitBreakers, recoveries, failureLog>>

\* clearRetryAttempts on a key that has an entry
clearRetryAttempts(key) ==
    /\ retryAttempts[key] # 0
    /\ retryAttempts' = [ retryAttempts EXCEPT ![key] = 0 ]
    /\ outcome' = Outcome("clearRetryAttempts", [ key |-> key ])
    /\ UNCHANGED <<clock, circuitBreakers, recoveries, lastError, failureLog>>

\* resetCircuitBreaker on a code that has an entry
resetCircuitBreaker(serviceKey) ==
    /\ circuitBreakers[serviceKey] # NoBreaker
    /\ circuitBreakers' = [ circuitBreakers EXCEPT ![serviceKey] = NoBreaker ]
    /\ failureLog' = [ failureLog EXCEPT ![serviceKey] = << >> ]
    /\ outcome' = Outcome("resetCircuitBreaker", [ serviceKey |-> serviceKey ])
    /\ UNCHANGED <<clock, retryAttempts, recoveries, lastError>>

\* time passes; a delay that is over has been resumed by then
RecoveryTick ==
    /\ clock + RecoveryTickMs <= MaxClock
    /\ \A i \in 1..Len(recoveries) : recoveries[i].due > clock
    /\ clock' = clock + RecoveryTickMs
    /\ outcome' = Outcome("RecoveryTick", Nothing)
    /\ UNCHANGED <<retryAttempts, circuitBreakers, recoveries, lastError, failureLog>>

(***************************************************************************)
(* The authentication context: authReducer, ConcurrentAuthenticationHandler *)
(* and the login / logout callbacks of AuthProvider                        *)
(***************************************************************************)

\* cap on the login calls made in one run
MaxLogins == 3

NoUser == ""
NoPromise == 0

Credentials(type, email, password, phoneNumber) ==
    [ type |-> type, email |-> email, password |-> password, phoneNumber |-> phoneNumber ]

AuthCredentials ==
    { Credentials("email", "a@zest.in", "secret", ""),
      Credentials("email", "a@zest.in", "", ""),
      Credentials("email", "b@zest.in", "secret", ""),
      Credentials("phone", "", "", "9876543210") }

initialState ==
    [ user |-> NoUser, token |-> NoPromise, isAuthenticated |-> FALSE,
      isLoading |-> FALSE, error |-> "" ]

\* authReducer; user and token are named by the email and by the call that
\* produced them
authReducer(state, action) ==
    CASE action.type = "AUTH_START" ->
             [ state EXCEPT !.isLoading = TRUE, !.error = "" ]
      [] action.type \in {"AUTH_SUCCESS", "AUTH_RESTORE"} ->
             [ state EXCEPT !.user = action.user, !.token = action.token,
                            !.isAuthenticated = TRUE, !.isLoading = FALSE, !.error = "" ]
      [] action.type = "AUTH_FAILURE" ->
             [ state EXCEPT !.user = NoUser, !.token = NoPromise,
                            !.isAuthenticated = FALSE, !.isLoading = FALSE,
                            !.error = action.error ]
      [] action.type = "AUTH_LOGOUT" -> initialState
      [] action.type = "AUTH_CLEAR_ERROR" -> [ state EXCEPT !.error = "" ]
      [] OTHER -> state

\* getCredentialsKey, for the credential types the model draws
getCredentialsKey(credentials) ==
    IF credentials.type = "email"
      THEN "email:" \o credentials.email
      ELSE "phone:" \o credentials.phoneNumber

CredentialKeys == { getCredentialsKey(credentials) : credentials \in AuthCredentials }

\* pendingAuthentications: key -> the promise stored for it, NoPromise if none
NoPending == [ key \in CredentialKeys |-> NoPromise ]

ContextIdle ==
    [ state |-> initialState,
      pendingAuthentications |-> NoPending,
      logins |-> << >>,
      promises |-> 0,
      persisted |-> [ user |-> NoUser, token |-> NoPromise ] ]

\* isAuthenticationInProgress: pendingAuthentications.size > 0
isAuthenticationInProgress ==
    \E key \in CredentialKeys : authContext.pendingAuthentications[key] # NoPromise

\* the mock authenticateUser: what its promise settles with
authenticateUser(credentials) ==
    credentials.type = "email" /\ credentials.email # "" /\ credentials.password # ""

\* authenticate up to its await: the entry of the key is replaced by the new
\* promise
authenticate(pending, credentials, authPromise) ==
    [ pending EXCEPT ![getCredentialsKey(credentials)] = authPromise ]

\* login up to its await
login(credentials) ==
    LET authPromise == authContext.promises + 1
    IN authContext' =
           [ authContext EXCEPT
               !.state = authReducer(@, [ type |-> "AUTH_START" ]),
               !.pendingAuthentications = authenticate(@, credentials, authPromise),
               !.logins = Append(@, [ promise |-> authPromise, credentials |-> credentials ]),
               !.promises = authPromise ]

\* the promise of the oldest login settles (every authenticateUser call waits
\* the same 1000 ms, so they settle in the order they were made): the rest of
\* authenticate, then the rest of login
authenticateSettles ==
    /\ authContext.logins # << >>
    /\ LET call == Head(authContext.logins)
           key == getCredentialsKey(call.credentials)
       IN authContext' =
              [ authContext EXCEPT
                  !.pendingAuthentications = [ @ EXCEPT ![key] = NoPromise ],
                  !.logins = Tail(@),
                  !.state =
                      IF authenticateUser(call.credentials)
                        THEN authReducer(@, [ type |-> "AUTH_SUCCESS",
                                              user |-> call.credentials.email,
                                              token |-> call.promise ])
                        ELSE authReducer(@, [ type |-> "AUTH_FAILURE",
                                              error |-> "Invalid credentials" ]),
                  !.persisted =
                      IF authenticateUser(call.credentials)
                        THEN [ user |-> call.credentials.email, token |-> call.promise ]
                        ELSE @ ]

\* logout
logout ==
    authContext' =
        [ authContext EXCEPT
            !.state = authReducer(@, [ type |-> "AUTH_LOGOUT" ]),
            !.persisted = [ user |-> NoUser, token |-> NoPromise ],
            !.pendingAuthentications = NoPending ]

\* clearError
clearError ==
    authContext' = [ authContext EXCEPT !.state = authReducer(@, [ type |-> "AUTH_CLEAR_ERROR" ]) ]

\* refreshAuth, the persisted state being younger than its 24 hours
refreshAuth ==
    /\ authContext.persisted.user # NoUser
    /\ authContext.persisted.token # NoPromise
    /\ authContext' =
           [ authContext EXCEPT
               !.state = authReducer(@, [ type |-> "AUTH_RESTORE",
                                          user |-> authContext.persisted.user,
                                          token |-> authContext.persisted.token ]) ]

(***************************************************************************)
(* Specifications                                                           *)
(***************************************************************************)

\* the state of each part right after construction
AcrIdle == acrIn = NULL /\ acrOut = NotBuilt

NotCalled == [ called |-> FALSE ]
StoreIdle == [ throws |-> FALSE, call |-> NotCalled, saved |-> NULL ]
ClassifyIdle == classifyIn = NULL /\ classified = NotCalled

FlowIdle ==
    /\ now = 0
    /\ sessionStorage = EmptySessionStorage
    /\ route = "/"
    /\ mounted = "none"
    /\ loginPage = LoginInitial
    /\ emailPage = EmailInitial
    /\ loader = FALSE
    /\ toast = ""
    /\ generateOtpTimeout = NoTimer
    /\ otpRequests = << >>
    /\ tokenRequests = << >>
    /\ sessionExpiredTimeout = FALSE
    /\ lastEvent = Event("none", Nothing)
    /\ otpRun = << >>
    /\ finoramic = FinoramicIdle
    /\ store = StoreIdle

CompleteIdle ==
    /\ signIn = SignInInitial
    /\ signUpTimeout = FALSE
    /\ emitted = NoToken

RecoveryIdle ==
    /\ clock = 0
    /\ retryAttempts = [ k \in AttemptKeys |-> 0 ]
    /\ circuitBreakers = [ c \in RecoveryCodes |-> NoBreaker ]
    /\ recoveries = << >>
    /\ lastError = ""
    /\ outcome = Outcome("none", Nothing)
    /\ failureLog = [ c \in RecoveryCodes |-> << >> ]

\* ---- the ACR builder on its own: one call per behaviour, any arguments
InitAcr ==
    /\ authContext = ContextIdle
    /\ acrIn \in AcrInputs
    /\ acrOut = NotBuilt
    /\ FlowIdle
    /\ CompleteIdle
    /\ RecoveryIdle
    /\ ClassifyIdle

\* a direct call of getAcrValues
CallGetAcrValues ==
    /\ acrOut = NotBuilt
    /\ acrOut' = [ via |-> "getAcrValues", isOtp |-> acrIn.isOtp,
                   fields |-> AcrFields(acrIn.acrValues, acrIn.isOtp, acrIn.isSignup,
                                        acrIn.isTruecaller, acrIn.authentication, acrIn.version),
                   acr_values |-> getAcrValues(acrIn.acrValues, acrIn.isOtp, acrIn.isSignup,
                                        acrIn.isTruecaller, acrIn.authentication, acrIn.version) ]
    /\ UNCHANGED <<acrIn, flowVars, completeVars, recoveryVars, classifyVars, callbackVars, storeVars, contextVars>>

\* a call through getTokenUsingAcrValues, which derives isOtp itself
CallGetTokenUsingAcrValues ==
    /\ acrOut = NotBuilt
    /\ acrIn.authentication # NULL
    /\ LET r == TokenRequest(acrIn.authentication, acrIn.isSignup, acrIn.isTruecaller,
                             acrIn.acrValues, acrIn.version)
       IN acrOut' = [ via |-> "getTokenUsingAcrValues",
                      fields |-> r.fields, acr_values |-> r.acr_values,
                      username |-> r.username, password |-> r.password, isOtp |-> r.isOtp ]
    /\ UNCHANGED <<acrIn, flowVars, completeVars, recoveryVars, classifyVars, callbackVars, storeVars, contextVars>>

NextAcr == CallGetAcrValues \/ CallGetTokenUsingAcrValues

SpecAcr == InitAcr /\ [][NextAcr]_vars

\* ---- the routed flow: a browser tab opened on "/" or "/email"
Init ==
    /\ authContext = ContextIdle
    /\ AcrIdle
    /\ CompleteIdle
    /\ RecoveryIdle
    /\ ClassifyIdle
    /\ now = 0
    /\ sessionStorage \in { EmptySessionStorage,
                            [ EmptySessionStorage EXCEPT !.AUTHENTICATION = GarbageItem ] }
    /\ route \in {"/", "/email"}
    /\ mounted = "none"
    /\ loginPage = LoginInitial
    /\ emailPage = EmailInitial
    /\ loader = FALSE
    /\ toast = ""
    /\ generateOtpTimeout = NoTimer
    /\ otpRequests = << >>
    /\ tokenRequests = << >>
    /\ sessionExpiredTimeout = FALSE
    /\ lastEvent = Event("none", Nothing)
    /\ otpRun = << >>
    /\ finoramic = FinoramicIdle
    /\ store = StoreIdle

\* a step of the routed flow leaves the other parts alone
FlowStep == UNCHANGED <<otpRun, acrVars, completeVars, recoveryVars, classifyVars, callbackVars, storeVars, contextVars>>

Next ==
    \/ /\ LoadApplication
       /\ FlowStep
    \/ /\ \E url \in {"/", "/email"} : mounted = "EmailPage" /\ Reload(url)
       /\ FlowStep
    \/ /\ Tick
       /\ FlowStep
    \/ /\ \E enteredNumber \in MobileInputs : submitMobileNumber(enteredNumber)
       /\ FlowStep
    \/ /\ callGenerateOtp
       /\ FlowStep
    \/ /\ \E i \in 1..MaxInFlight, OtpId \in OtpIds, ShowMfaChallenge \in BOOLEAN :
              triggerOtpResolves(i, OtpId, ShowMfaChallenge)
       /\ FlowStep
    \/ /\ \E i \in 1..MaxInFlight, error \in OtpBackendErrors : triggerOtpRejects(i, error)
       /\ FlowStep
    \/ /\ Len(otpRequests) + Len(tokenRequests) < MaxInFlight
       /\ loginPage.retryOtpAttempts < MaxOtpAttempts
       /\ \E otp \in OtpInputs, pan \in PanInputs : verifyOtp(otp, pan)
       /\ FlowStep
    \/ /\ \E i \in DOMAIN tokenRequests, token \in Tokens : loginTokenResolves(i, token)
       /\ FlowStep
    \/ /\ \E i \in DOMAIN tokenRequests, error \in BackendErrors : loginTokenRejectsNotFound(i, error)
       /\ FlowStep
    \/ /\ \E i \in DOMAIN tokenRequests, error \in BackendErrors : loginTokenRejects(i, error)
       /\ FlowStep
    \/ /\ resendOtp
       /\ FlowStep
    \/ /\ closeOtpModal
       /\ FlowStep
    \/ /\ sessionCheckEffect
       /\ FlowStep
    \/ /\ Len(otpRequests) + Len(tokenRequests) < MaxInFlight
       /\ \E email \in Emails, consent \in BOOLEAN :
              handleEmailSubmit(email, consent, consent)
       /\ FlowStep
    \/ /\ \E i \in DOMAIN tokenRequests, token \in Tokens : signupTokenResolves(i, token)
       /\ FlowStep
    \/ /\ \E i \in DOMAIN tokenRequests, error \in BackendErrors : signupTokenRejects(i, error)
       /\ FlowStep
    \/ /\ sessionExpiredTimeoutFires
       /\ FlowStep
    \/ /\ closeAuthError
       /\ FlowStep
    \/ /\ handlePopState
       /\ FlowStep
    \/ /\ handleLogoutConfirm
       /\ FlowStep
    \/ /\ handleLogoutCancel
       /\ FlowStep

Spec == Init /\ [][Next]_vars

\* the routed flow with the browser's scheduling: a pending setTimeout(2000)
\* callback runs unless the page is unloaded first, and a page that was
\* requested gets loaded
SpecLive ==
    /\ Init
    /\ [][Next]_vars
    /\ WF_vars(sessionExpiredTimeoutFires /\ FlowStep)
    /\ WF_vars(LoadApplication /\ FlowStep)
    /\ WF_vars(sessionCheckEffect /\ FlowStep)

\* ---- the single-component flow: a browser tab opened on "/" or "/email"
InitComplete ==
    /\ authContext = ContextIdle
    /\ AcrIdle
    /\ RecoveryIdle
    /\ ClassifyIdle
    /\ CompleteIdle
    /\ now = 0
    /\ sessionStorage \in { EmptySessionStorage,
                            [ EmptySessionStorage EXCEPT !.AUTHENTICATION = GarbageItem ] }
    /\ route \in {"/", "/email"}
    /\ mounted = "none"
    /\ loginPage = LoginInitial
    /\ emailPage = EmailInitial
    /\ loader = FALSE
    /\ toast = ""
    /\ generateOtpTimeout = NoTimer
    /\ otpRequests = << >>
    /\ tokenRequests = << >>
    /\ sessionExpiredTimeout = FALSE
    /\ lastEvent = Event("none", Nothing)
    /\ otpRun = << >>
    /\ finoramic = FinoramicIdle
    /\ store = StoreIdle

\* a step of the single component leaves the other parts alone; a behaviour is
\* followed up to the first token handed to onGetToken
CompleteStep == emitted = NoToken /\ UNCHANGED <<otpRun, acrVars, recoveryVars, classifyVars, callbackVars, storeVars, contextVars>>

NextComplete ==
    \/ /\ MountComplete
       /\ CompleteStep
    \/ /\ \E url \in {"/", "/email"} :
              mounted = Complete /\ signIn.showEmailOptions /\ Complete_Reload(url)
       /\ CompleteStep
    \/ /\ Complete_Tick
       /\ CompleteStep
    \/ /\ \E pathname \in {"/", "/email"} : Complete_popstate(pathname)
       /\ CompleteStep
    \/ /\ \E mobileNumber \in CompleteMobileInputs : setMobileNumber(mobileNumber)
       /\ CompleteStep
    \/ /\ Complete_callGenerateOtp
       /\ CompleteStep
    \/ /\ \E i \in 1..MaxInFlight, OtpId \in OtpIds, ShowMfaChallenge \in BOOLEAN :
              Complete_triggerOtpResolves(i, OtpId, ShowMfaChallenge)
       /\ CompleteStep
    \/ /\ \E i \in 1..MaxInFlight, error \in OtpBackendErrors : Complete_triggerOtpRejects(i, error)
       /\ CompleteStep
    \/ /\ \E otp \in Otps : Complete_verifyOtp(otp, "")
       /\ CompleteStep
    \/ /\ \E i \in 1..MaxInFlight, token \in Tokens : Complete_tokenResolves(i, token)
       /\ CompleteStep
    \/ /\ \E i \in 1..MaxInFlight, error \in BackendErrors : Complete_tokenRejectsNotFound(i, error)
       /\ CompleteStep
    \/ /\ \E i \in 1..MaxInFlight, error \in BackendErrors : Complete_tokenRejects(i, error)
       /\ CompleteStep
    \/ /\ \E email \in Emails, waConsent \in BOOLEAN :
              Complete_handleEmailSubmit(email, TRUE, waConsent)
       /\ CompleteStep
    \/ /\ signUpUser
       /\ CompleteStep
    \/ /\ Complete_resendOtp
       /\ CompleteStep
    \/ /\ Complete_closeOtpModal
       /\ CompleteStep
    \/ /\ Complete_closeAuthError
       /\ CompleteStep
    \/ /\ Complete_handleLogoutConfirm
       /\ CompleteStep
    \/ /\ Complete_handleLogoutCancel
       /\ CompleteStep

SpecComplete == InitComplete /\ [][NextComplete]_vars

\* ---- the recovery engine: one service instance, calls arriving at any time;
\* SYS_002 is called without restriction, NET_001 only while its ledger is empty
InitRecovery ==
    /\ authContext = ContextIdle
    /\ AcrIdle
    /\ FlowIdle
    /\ CompleteIdle
    /\ RecoveryIdle
    /\ ClassifyIdle

\* a step of the engine leaves the other parts alone
RecoveryStep == UNCHANGED <<acrVars, flowVars, completeVars, classifyVars, callbackVars, storeVars, contextVars>>

NextRecovery ==
    \/ /\ \E error \in RecoveryErrors, call \in RecoveryCalls, caller \in RecoveryCallers :
              /\ error.code = call[1]
              /\ error.code = "SYS_002"
                   \/ retryAttempts[attemptKeyOf(call[1], call[2])] = 0
              \* createErrorContext gives the hook's calls a session id
              /\ caller = "useErrorRecovery" => Truthy(call[2])
              /\ Len(recoveries) < MaxPending
              /\ recoverFromError(error, call[2], caller)
       /\ RecoveryStep
    \/ /\ \E call \in RecoveryCalls :
              /\ Truthy(call[2])
              /\ outcome.name # "operationSucceeds"
              /\ operationSucceeds(call[1], call[2])
       /\ RecoveryStep
    \/ /\ \E i \in 1..MaxPending : delayElapses(i)
       /\ RecoveryStep
    \/ /\ \E key \in AttemptKeys : clearRetryAttempts(key)
       /\ RecoveryStep
    \/ /\ \E serviceKey \in RecoveryCodes : resetCircuitBreaker(serviceKey)
       /\ RecoveryStep
    \/ /\ RecoveryTick
       /\ RecoveryStep

SpecRecovery == InitRecovery /\ [][NextRecovery]_vars

\* ---- the recovery service called directly (the 'retry' action), a call
\* arriving while the delay of an earlier call is still awaited
MaxOverlap == 2
\* the calls are made in the first minute and a half
OverlapHorizon == 90000

NextOverlap ==
    \/ /\ \E error \in RecoveryErrors :
              /\ error.retryable = "undefined"
              /\ Len(recoveries) < MaxOverlap
              /\ recoverFromError(error, "", "retryAction")
       /\ RecoveryStep
    \/ /\ \E i \in 1..MaxOverlap : delayElapses(i)
       /\ RecoveryStep
    \/ /\ clock < OverlapHorizon
       /\ RecoveryTick
       /\ RecoveryStep

SpecOverlap == InitRecovery /\ [][NextOverlap]_vars

\* ---- an operation that keeps failing with "Failed to fetch", run again and
\* again through the hook's executeWithRecovery with context {sessionId: 's1'};
\* the 'retry' action of getRecoveryActions may be run for the same error
\* the AuthError handleEdgeCase makes, as the value recoverFromError is given
AsAuthError(authError) ==
    AuthErrorValue(authError.code, authError.type, BoolToString(authError.retryable))

\* executeWithRecovery: operation() rejects, handleError turns the rejection
\* into an AuthError, and the hook's recoverFromError is entered when
\* canRecover(authError)
executeWithRecovery(raw, sessionId) ==
    LET authError == AsAuthError(handleEdgeCase(raw))
    IN  /\ canRecover(authError)
        /\ recoverFromError(authError, sessionId, "useErrorRecovery")

NextExecute ==
    \/ /\ Len(recoveries) = 0
       /\ executeWithRecovery(ErrorValue("TypeError", "Failed to fetch"), "s1")
       /\ RecoveryStep
    \/ /\ Len(recoveries) = 0
       /\ recoverFromError(AuthErrorValue("NET_001", "", "undefined"), "s1", "retryAction")
       /\ RecoveryStep
    \/ /\ delayElapses(1)
       /\ RecoveryStep
    \/ /\ RecoveryTick
       /\ RecoveryStep

SpecExecute == InitRecovery /\ [][NextExecute]_vars


\* ---- the routed flow with repeated submits: a submit may be made while the
\* token call of an earlier submit is still awaiting its response
InitReentry ==
    /\ Init
    /\ route = "/"
    /\ sessionStorage = EmptySessionStorage

NextReentry ==
    \/ /\ LoadApplication
       /\ FlowStep
    \/ /\ \E mobileNumber \in Mobiles : handleMobileSubmit(mobileNumber)
       /\ FlowStep
    \/ /\ callGenerateOtp
       /\ FlowStep
    \/ /\ \E i \in DOMAIN otpRequests, OtpId \in OtpIds :
              triggerOtpResolves(i, OtpId, FALSE)
       /\ FlowStep
    \/ /\ Len(tokenRequests) < MaxVerifyInFlight
       /\ loginPage.retryOtpAttempts < MaxOtpAttempts
       /\ \E otp \in Otps : verifyOtp(otp, "")
       /\ FlowStep
    \/ /\ \E i \in DOMAIN tokenRequests, token \in Tokens : loginTokenResolves(i, token)
       /\ FlowStep
    \/ /\ \E i \in DOMAIN tokenRequests, error \in BackendErrors : loginTokenRejectsNotFound(i, error)
       /\ FlowStep
    \/ /\ \E i \in DOMAIN tokenRequests, error \in BackendErrors : loginTokenRejects(i, error)
       /\ FlowStep
    \/ /\ sessionCheckEffect
       /\ FlowStep
    \/ /\ Len(tokenRequests) < MaxVerifyInFlight
       /\ \E email \in Emails : handleEmailSubmit(email, TRUE, TRUE)
       /\ FlowStep
    \/ /\ \E i \in DOMAIN tokenRequests, token \in Tokens : signupTokenResolves(i, token)
       /\ FlowStep
    \/ /\ \E i \in DOMAIN tokenRequests, error \in BackendErrors : signupTokenRejects(i, error)
       /\ FlowStep
    \/ /\ sessionExpiredTimeoutFires
       /\ FlowStep
    \/ /\ closeAuthError
       /\ FlowStep

SpecReentry == InitReentry /\ [][NextReentry]_vars


\* ---- the callback route of the third-party redirect
InitCallback ==
    /\ authContext = ContextIdle
    /\ AcrIdle
    /\ CompleteIdle
    /\ RecoveryIdle
    /\ ClassifyIdle
    /\ now = 0
    /\ sessionStorage \in
           { EmptySessionStorage,
             [ EmptySessionStorage EXCEPT !.AUTHENTICATION = GarbageItem ] }
           \cup { setAuthenticationSession(EmptySessionStorage, authSession) :
                     authSession \in CallbackRecords }
    /\ route = CallbackRoute
    /\ mounted = "none"
    /\ loginPage = LoginInitial
    /\ emailPage = EmailInitial
    /\ loader = FALSE
    /\ toast = ""
    /\ generateOtpTimeout = NoTimer
    /\ otpRequests = << >>
    /\ tokenRequests = << >>
    /\ sessionExpiredTimeout = FALSE
    /\ lastEvent = Event("none", Nothing)
    /\ otpRun = << >>
    /\ finoramic \in { [ FinoramicIdle EXCEPT !.email = email ] : email \in RedirectEmails }
    /\ store = StoreIdle

\* a step of the callback page leaves the pages of the flow alone
CallbackStep ==
    UNCHANGED <<now, mounted, loginPage, emailPage, generateOtpTimeout, otpRequests,
                tokenRequests, sessionExpiredTimeout, otpRun,
                acrVars, completeVars, recoveryVars, classifyVars, storeVars, contextVars>>

NextCallback ==
    \/ /\ MountFinoramicCallback
       /\ CallbackStep
    \/ /\ \E token \in Tokens : callbackTokenResolves(token)
       /\ CallbackStep
    \/ /\ \E error \in BackendErrors : callbackTokenRejects(error)
       /\ CallbackStep
    \/ /\ callbackLeaves
       /\ CallbackStep

SpecCallback == InitCallback /\ [][NextCallback]_vars

\* ---- a browser tab that comes back, after any time, to the email route or
\* to the callback route while the store holds the record of the email step
InitResume ==
    /\ authContext = ContextIdle
    /\ AcrIdle
    /\ CompleteIdle
    /\ RecoveryIdle
    /\ ClassifyIdle
    /\ now = 0
    /\ sessionStorage \in { setAuthenticationSession(EmptySessionStorage, authSession) :
                                authSession \in CallbackRecords }
    /\ route \in {"/email", CallbackRoute}
    /\ mounted = "none"
    /\ loginPage = LoginInitial
    /\ emailPage = EmailInitial
    /\ loader = FALSE
    /\ toast = ""
    /\ generateOtpTimeout = NoTimer
    /\ otpRequests = << >>
    /\ tokenRequests = << >>
    /\ sessionExpiredTimeout = FALSE
    /\ lastEvent = Event("none", Nothing)
    /\ otpRun = << >>
    /\ finoramic \in { [ FinoramicIdle EXCEPT !.email = email ] :
                          email \in {"user%40gmail.com", "not-an-email"} }
    /\ store = StoreIdle

NextResume ==
    \/ /\ LoadApplication
       /\ FlowStep
    \/ /\ ~finoramic.mounted
       /\ Tick
       /\ FlowStep
    \/ /\ sessionCheckEffect
       /\ FlowStep
    \/ /\ Len(tokenRequests) < MaxInFlight
       /\ \E email \in Emails : handleEmailSubmit(email, TRUE, TRUE)
       /\ FlowStep
    \/ /\ \E i \in DOMAIN tokenRequests, token \in Tokens : signupTokenResolves(i, token)
       /\ FlowStep
    \/ /\ \E i \in DOMAIN tokenRequests, error \in BackendErrors : signupTokenRejects(i, error)
       /\ FlowStep
    \/ /\ MountFinoramicCallback
       /\ CallbackStep
    \/ /\ \E token \in Tokens : callbackTokenResolves(token)
       /\ CallbackStep
    \/ /\ \E error \in BackendErrors : callbackTokenRejects(error)
       /\ CallbackStep
    \/ /\ callbackLeaves
       /\ CallbackStep

SpecResume == InitResume /\ [][NextResume]_vars

\* ---- the OTP step of LoginPage with the messages of its failures recorded
\* more token calls than one message threshold
MaxOtpRun == 5

\* the run of ZMAUT02 failures: a failure adds the message on the screen, any
\* other token response, a new code (resendOtp) or leaving the OTP form ends it
OtpStep ==
    /\ otpRun' =
           IF lastEvent'.name = "loginTokenRejects"
             THEN IF lastEvent'.seen.errorCode = "ZMAUT02"
                    THEN Append(otpRun, LoginErrorShown')
                    ELSE << >>
           ELSE IF lastEvent'.name = "resendOtp" \/ ~loginPage'.showOtpForm
             THEN << >>
           ELSE otpRun
    /\ UNCHANGED <<acrVars, completeVars, recoveryVars, classifyVars, callbackVars, storeVars, contextVars>>

NextOtp ==
    \/ /\ LoadApplication
       /\ OtpStep
    \/ /\ submitMobileNumber("9876543210")
       /\ OtpStep
    \/ /\ callGenerateOtp
       /\ OtpStep
    \/ /\ \E i \in DOMAIN otpRequests, OtpId \in OtpIds :
              triggerOtpResolves(i, OtpId, FALSE)
       /\ OtpStep
    \/ /\ Len(otpRequests) + Len(tokenRequests) < MaxInFlight
       /\ loginPage.retryOtpAttempts < MaxOtpRun
       /\ \E otp \in Otps : verifyOtp(otp, "")
       /\ OtpStep
    \/ /\ \E i \in DOMAIN tokenRequests, error \in BackendErrors : loginTokenRejects(i, error)
       /\ OtpStep
    \/ /\ Len(tokenRequests) = 0
       /\ resendOtp
       /\ OtpStep
    \/ /\ closeOtpModal
       /\ OtpStep

SpecOtp == InitReentry /\ [][NextOtp]_vars

\* ---- the classifier and the extractors on their own: one call per behaviour
ClassifyStrings == {"", "Network down", "lost connection", "boom"}
ErrorNames == {"Error", "AbortError"}
ErrorMessages ==
    {"", "Failed to fetch", "NetworkError when attempting to fetch resource.",
     "timeout of 5000ms exceeded", "Validation failed", "invalid otp", "boom"}
ClassifyCodes ==
    {"AUTH_001", "OTP_004", "PWD_001", "PHONE_001", "EMAIL_001", "VAL_001", "NET_001",
     "TIMEOUT_001", "GOOGLE_001", "TRUECALLER_001", "FINORAMIC_001", "RATE_001", "SEC_001",
     "SYS_002", "UNKNOWN_ERROR", "ZMAUT02", ""}
CodeKinds == {"absent", "string", "number", "null"}
StatusCodes == {NoStatusCode, 404, 500, 503}
Retryables == {"undefined", "true", "false"}

\* objects that are not Error instances, with any of their properties missing
\* or of another type
ObjectValues ==
    { Value("object", "", "", hasMessage, IF hasMessage THEN "Something went wrong" ELSE "",
            codeKind, IF codeKind = "string" THEN code ELSE "", type, retryable,
            statusCode, hasService) :
          hasMessage \in BOOLEAN, codeKind \in CodeKinds, code \in ClassifyCodes,
          type \in {""} \cup ErrorTypes, retryable \in Retryables,
          statusCode \in StatusCodes, hasService \in BOOLEAN }

RawValues ==
    {NullValue, UndefinedValue}
        \cup { StringValue(text) : text \in ClassifyStrings }
        \cup { ErrorValue(name, message) : name \in ErrorNames, message \in ErrorMessages }
        \cup ObjectValues

\* AuthError objects as their type declares them
AuthErrors ==
    { AuthErrorValue(code, type, retryable) :
          code \in ClassifyCodes, type \in {""} \cup ErrorTypes, retryable \in Retryables }

\* error_description / error / Message texts: a head, digits, and a tail with
\* no, one or two '|'
TextHeads == {"", "ZMAUT", "ZMAUX", "ZMAU", "XZMAUT", "zmaut"}
TextDigits == {"", "0", "02"}
TextTails == {"", "|", "|Session expired", "|a|b", " no bar"}
Texts == { h \o d \o t : h \in TextHeads, d \in TextDigits, t \in TextTails }
Messages == {"", "ZMAUT17|Enter valid phone number", "Bad request"}

HttpErrors ==
    { HttpError(kind, body, IF body = "object" THEN text ELSE "",
                IF body = "object" THEN Message ELSE "", IF body = "object" THEN other ELSE "") :
          kind \in {"null", "object"}, body \in {"undefined", "string", "object"},
          text \in Texts, Message \in Messages, other \in {"", "ZMAUT25|Email taken", "x"} }

ClassifyInputs ==
    { [ of |-> "value", arg |-> v ] : v \in RawValues }
        \cup { [ of |-> "http", arg |-> e ] : e \in HttpErrors }

InitClassify ==
    /\ authContext = ContextIdle
    /\ classifyIn \in ClassifyInputs
    /\ classified = NotCalled
    /\ AcrIdle
    /\ FlowIdle
    /\ CompleteIdle
    /\ RecoveryIdle

Result(fn, threw, value) == [ called |-> TRUE, fn |-> fn, threw |-> threw, value |-> value ]

ClassifyStep == classified = NotCalled /\ UNCHANGED <<classifyIn, acrVars, flowVars, completeVars, recoveryVars,
                                                callbackVars, storeVars, contextVars>>

CallClassifyError ==
    /\ classifyIn.of = "value"
    /\ LET type == classifyError(classifyIn.arg)
       IN classified' = Result("classifyError", type = TypeError, type)

\* canRecover takes an AuthError; it classifies first, then looks at the flag
CallCanRecover ==
    /\ classifyIn.of = "value"
    /\ classifyIn.arg \in AuthErrors
    /\ classified' = Result("canRecover", classifyError(classifyIn.arg) = TypeError,
                            canRecover(classifyIn.arg))

CallHandleEdgeCase ==
    /\ classifyIn.of = "value"
    /\ classified' = Result("handleEdgeCase", FALSE, handleEdgeCase(classifyIn.arg))

CallCheckIfErrorCodeRetured ==
    /\ classifyIn.of = "http"
    /\ classified' = Result("checkIfErrorCodeRetured", FALSE,
                            checkIfErrorCodeRetured(classifyIn.arg))

CallCheckIfErrorCodeReturedFromGoogle ==
    /\ classifyIn.of = "http"
    /\ classified' = Result("checkIfErrorCodeReturedFromGoogle", FALSE,
                            checkIfErrorCodeReturedFromGoogle(classifyIn.arg))

NextClassify ==
    \/ /\ CallClassifyError
       /\ ClassifyStep
    \/ /\ CallCanRecover
       /\ ClassifyStep
    \/ /\ CallHandleEdgeCase
       /\ ClassifyStep
    \/ /\ CallCheckIfErrorCodeRetured
       /\ ClassifyStep
    \/ /\ CallCheckIfErrorCodeReturedFromGoogle
       /\ ClassifyStep

SpecClassify == InitClassify /\ [][NextClassify]_vars


\* ---- the session store operations, called on a store that may throw
\* the bundles and opt-ins a page holds when it saves
StoreClosures ==
    { [ authentication |-> [ NewAuthentication EXCEPT !.MobileNumber = mobileNumber,
                                                      !.Otp = "123456",
                                                      !.OtpId = "abc" ],
        waOpted |-> waOpted ] :
      mobileNumber \in Mobiles, waOpted \in BOOLEAN }

InitStore ==
    /\ authContext = ContextIdle
    /\ AcrIdle
    /\ CompleteIdle
    /\ RecoveryIdle
    /\ ClassifyIdle
    /\ now = 0
    /\ sessionStorage \in { EmptySessionStorage,
                            [ EmptySessionStorage EXCEPT !.AUTHENTICATION = GarbageItem ] }
    /\ route = "/"
    /\ mounted = "none"
    /\ loginPage = LoginInitial
    /\ emailPage = EmailInitial
    /\ loader = FALSE
    /\ toast = ""
    /\ generateOtpTimeout = NoTimer
    /\ otpRequests = << >>
    /\ tokenRequests = << >>
    /\ sessionExpiredTimeout = FALSE
    /\ lastEvent = Event("none", Nothing)
    /\ otpRun = << >>
    /\ finoramic = FinoramicIdle
    /\ store \in { [ StoreIdle EXCEPT !.throws = throws ] : throws \in BOOLEAN }

StoreStep ==
    UNCHANGED <<route, mounted, loginPage, emailPage, loader, toast, generateOtpTimeout,
                otpRequests, tokenRequests, sessionExpiredTimeout, lastEvent, otpRun,
                acrVars, completeVars, recoveryVars, classifyVars, callbackVars, contextVars>>

\* what a save call saw: the item stored before it, the time and its argument
SaveSeen(reuseIssuedAt) ==
    [ before |-> sessionStorage.AUTHENTICATION, at |-> now, reuseIssuedAt |-> reuseIssuedAt ]

\* LoginPage.verifyOtp's save: the record is built with issuedAt: Date.now()
CallSetAuthenticationSession(closure) ==
    LET authSession == [ auth |-> closure.authentication,
                         waOpted |-> closure.waOpted,
                         issuedAt |-> now ]
        done == trySetAuthenticationSession(sessionStorage, authSession, store.throws)
    IN  /\ sessionStorage' = done.st
        /\ store' = [ store EXCEPT
                        !.call = Result("setAuthenticationSession", done.threw, SaveSeen(FALSE)),
                        !.saved = IF store.throws THEN NULL ELSE authSession ]
        /\ UNCHANGED now

CallSetAuthSessionStorage(closure, reuseIssuedAt) ==
    LET done == trySetAuthSessionStorage(sessionStorage, closure, now, reuseIssuedAt,
                                            store.throws)
    IN  /\ sessionStorage' = done.st
        /\ store' = [ store EXCEPT
                        !.call = Result("setAuthSessionStorage", done.threw,
                                        SaveSeen(reuseIssuedAt)),
                        !.saved = IF done.st.AUTHENTICATION.kind = "json" /\ ~store.throws
                                    THEN JSONparse(done.st.AUTHENTICATION)
                                    ELSE NULL ]
        /\ UNCHANGED now

CallGetAuthenticationSession ==
    LET done == tryGetAuthenticationSession(sessionStorage, store.throws)
    IN  /\ store' = [ store EXCEPT
                        !.call = Result("getAuthenticationSession", done.threw, done.value) ]
        /\ UNCHANGED <<sessionStorage, now>>

CallRemoveAuthenticationSession ==
    LET done == tryRemoveAuthenticationSession(sessionStorage, store.throws)
    IN  /\ sessionStorage' = done.st
        /\ store' = [ store EXCEPT
                        !.call = Result("removeAuthenticationSession", done.threw,
                                        SaveSeen(FALSE)),
                        !.saved = NULL ]
        /\ UNCHANGED now

CallIsValidAuthSessionStorage ==
    LET done == tryIsValidAuthSessionStorage(sessionStorage, now, store.throws)
    IN  /\ store' = [ store EXCEPT
                        !.call = Result("isValidAuthSessionStorage", done.threw, done.value) ]
        /\ UNCHANGED <<sessionStorage, now>>

\* time passes
StoreTick ==
    /\ now < MaxTime
    /\ now' = now + TickMs
    /\ store' = [ store EXCEPT !.call = NotCalled ]
    /\ UNCHANGED sessionStorage

\* the browser store starts or stops throwing (quota, disabled storage)
StoreFlips ==
    /\ store' = [ store EXCEPT !.throws = ~@, !.call = NotCalled ]
    /\ UNCHANGED <<sessionStorage, now>>

NextStore ==
    \/ /\ \E closure \in StoreClosures : CallSetAuthenticationSession(closure)
       /\ StoreStep
    \/ /\ \E closure \in StoreClosures, reuseIssuedAt \in BOOLEAN :
              CallSetAuthSessionStorage(closure, reuseIssuedAt)
       /\ StoreStep
    \/ /\ CallGetAuthenticationSession
       /\ StoreStep
    \/ /\ CallRemoveAuthenticationSession
       /\ StoreStep
    \/ /\ CallIsValidAuthSessionStorage
       /\ StoreStep
    \/ /\ StoreTick
       /\ StoreStep
    \/ /\ StoreFlips
       /\ StoreStep

SpecStore == InitStore /\ [][NextStore]_vars

(***************************************************************************)
(* The email form of the routed "/email" page: EnterEmailV3 keeps its own  *)
(* isSubmitInProgress, next to EmailPage's isSubmitting                    *)
(***************************************************************************)

FormEmails == {"user@gmail.com", "not-an-email"}

\* the disabled attribute SubmitterComponent gives the form's submit button
isButtonDisabled(enteredEmail, incomeConsent) ==
    IF ~incomeConsent
      THEN TRUE
      ELSE emailPage.isSubmitInProgress \/ ~isEmail(enteredEmail)

\* submitEmail, run by a press of the form's submit button
submitEmail(enteredEmail, incomeConsent, sliderCheck) ==
    /\ ~isButtonDisabled(enteredEmail, incomeConsent)
    /\ enteredEmail # ""
    /\ isEmail(enteredEmail)
    /\ incomeConsent
    /\ handleEmailSubmitFrom([ emailPage EXCEPT !.isSubmitInProgress = TRUE ],
                             enteredEmail, incomeConsent, sliderCheck)

InitEmailForm ==
    /\ InitResume
    /\ route = "/email"

NextEmailForm ==
    \/ /\ LoadApplication
       /\ FlowStep
    \/ /\ Tick
       /\ FlowStep
    \/ /\ sessionCheckEffect
       /\ FlowStep
    \/ /\ Len(tokenRequests) < MaxInFlight
       /\ \E enteredEmail \in FormEmails, incomeConsent \in BOOLEAN, sliderCheck \in BOOLEAN :
              submitEmail(enteredEmail, incomeConsent, sliderCheck)
       /\ FlowStep
    \/ /\ \E i \in DOMAIN tokenRequests, token \in Tokens : signupTokenResolves(i, token)
       /\ FlowStep
    \/ /\ \E i \in DOMAIN tokenRequests, error \in BackendErrors : signupTokenRejects(i, error)
       /\ FlowStep
    \/ /\ closeAuthError
       /\ FlowStep
    \/ /\ sessionExpiredTimeoutFires
       /\ FlowStep

SpecEmailForm == InitEmailForm /\ [][NextEmailForm]_vars

(***************************************************************************)
(* The routed flow together with the "/logout" route                       *)
(***************************************************************************)

\* the application is loaded at "/logout" and LogoutPage mounts
MountLogoutPage ==
    /\ mounted = "none"
    /\ route' = "/logout"
    /\ mounted' = "LogoutPage"
    /\ sessionStorage' = initializeSessionStorage(sessionStorage)
    /\ lastEvent' = Event("MountLogoutPage", Nothing)
    /\ UNCHANGED <<now, loginPage, emailPage, loader, toast, generateOtpTimeout,
                   otpRequests, tokenRequests, sessionExpiredTimeout>>

\* handleLogout of LogoutPage, called when the Logout countdown ends
handleLogout ==
    /\ mounted = "LogoutPage"
    /\ MountLoginPage(removeAuthenticationSession(sessionStorage), tokenRequests)
    /\ toast' = "Logged out successfully"
    /\ lastEvent' = Event("handleLogout", Nothing)
    /\ UNCHANGED <<now, sessionExpiredTimeout>>

NextRecord ==
    \/ Next
    \/ /\ MountLogoutPage
       /\ FlowStep
    \/ /\ handleLogout
       /\ FlowStep

SpecRecord == Init /\ [][NextRecord]_vars

(***************************************************************************)
(* The authentication context alone                                        *)
(***************************************************************************)

InitContext ==
    /\ authContext = ContextIdle
    /\ AcrIdle
    /\ FlowIdle
    /\ CompleteIdle
    /\ RecoveryIdle
    /\ ClassifyIdle

ContextStep ==
    UNCHANGED <<acrVars, flowVars, completeVars, recoveryVars, classifyVars,
                callbackVars, storeVars>>

NextContext ==
    \/ /\ authContext.promises < MaxLogins
       /\ \E credentials \in AuthCredentials : login(credentials)
       /\ ContextStep
    \/ /\ authenticateSettles
       /\ ContextStep
    \/ /\ logout
       /\ ContextStep
    \/ /\ clearError
       /\ ContextStep
    \/ /\ refreshAuth
       /\ ContextStep

SpecContext == InitContext /\ [][NextContext]_vars
(***************************************************************************)
(* Claims about the ACR builder (checked under SpecAcr)                     *)
(***************************************************************************)
Built == acrOut # NotBuilt
HasField(fs, k) == \E i \in 1..Len(fs) : fs[i][1] = k
FieldValue(fs, k) == fs[CHOOSE i \in 1..Len(fs) : fs[i][1] = k][2]
Pos(order, k) == CHOOSE i \in 1..Len(order) : order[i] = k
InOrder(fs, order) ==
    /\ \A i \in 1..Len(fs) : \E j \in 1..Len(order) : order[j] = fs[i][1]
    /\ \A i \in 1..(Len(fs) - 1) : Pos(order, fs[i][1]) < Pos(order, fs[i+1][1])

\* the order the claim states
OrderAsClaimed ==
    << "isOtp", "isSignup", "isLogin", "isTruecaller", "mobile", "email", "otpId",
       "loanApplicationId", "merchantId", "encryptedMerchantId", "MerchantCustomerId",
       "loginContext", "version", "qType", "qValue" >>
\* the same order with loginContext moved between email and otpId
OrderAmended ==
    << "isOtp", "isSignup", "isLogin", "isTruecaller", "mobile", "email", "loginContext",
       "otpId", "loanApplicationId", "merchantId", "encryptedMerchantId",
       "MerchantCustomerId", "version", "qType", "qValue" >>

\* C5 as stated: the fields of every ACR string follow the order isOtp, isSignup,
\* isLogin, third-party flag, mobile, email, otpId, loanApplicationId, merchantId,
\* encryptedMerchantId, merchantCustomerId, loginContext, version, qType, qValue.
C5_OrderAsClaimed == Built => InOrder(acrOut.fields, OrderAsClaimed)

\* C5 amended: the fields of every ACR string follow that order except that
\* loginContext comes directly after email and before otpId and the routing fields.
C5_FieldOrder == Built => InOrder(acrOut.fields, OrderAmended)

\* C5 witness: a string holding loginContext together with email, otpId, a
\* routing field and the q pair
C5_Witness ==
    /\ Built
    /\ HasField(acrOut.fields, "loginContext")
    /\ HasField(acrOut.fields, "otpId")
    /\ HasField(acrOut.fields, "MerchantCustomerId")
    /\ HasField(acrOut.fields, "email")
    /\ HasField(acrOut.fields, "qValue")

PhonePresent == acrIn.authentication # NULL /\ acrIn.authentication.MobileNumber # ""
EmailPresent == acrIn.authentication # NULL /\ acrIn.authentication.Email # ""
OtpIdPresent == acrIn.authentication # NULL /\ acrIn.authentication.OtpId # ""
QPairPresent ==
    acrIn.acrValues # NULL /\ acrIn.acrValues.qType # "" /\ acrIn.acrValues.qValue # ""

MobileGate(otp) ==
    PhonePresent /\ (((otp \/ acrIn.isTruecaller) /\ ~acrIn.isSignup) \/ acrIn.isSignup)
EmailGate(otp) ==
    EmailPresent /\ ((~otp /\ ~acrIn.isTruecaller /\ ~acrIn.isSignup) \/ acrIn.isSignup)

\* C6 as stated: mobile, email, otpId and the qType/qValue pair appear iff their
\* gates hold, the gate of otpId being "OTP mode and an otpId is present", OTP
\* mode being the flag handed to the builder.
C6_GatesAsClaimed ==
    Built =>
        /\ HasField(acrOut.fields, "mobile") <=> MobileGate(acrOut.isOtp)
        /\ HasField(acrOut.fields, "email") <=> EmailGate(acrOut.isOtp)
        /\ HasField(acrOut.fields, "otpId") <=> (acrOut.isOtp /\ OtpIdPresent)
        /\ HasField(acrOut.fields, "qType") <=> QPairPresent
        /\ HasField(acrOut.fields, "qValue") <=> QPairPresent

\* C6 amended: as stated, except that otpId appears iff the request is in OTP
\* mode, is not a third-party (Truecaller) request, and an otpId is present; a
\* gated-out field is absent whatever the bundle holds.
C6_Gates ==
    Built =>
        /\ HasField(acrOut.fields, "mobile") <=> MobileGate(acrOut.isOtp)
        /\ HasField(acrOut.fields, "email") <=> EmailGate(acrOut.isOtp)
        /\ HasField(acrOut.fields, "otpId")
             <=> (acrOut.isOtp /\ ~acrIn.isTruecaller /\ OtpIdPresent)
        /\ HasField(acrOut.fields, "qType") <=> QPairPresent
        /\ HasField(acrOut.fields, "qValue") <=> QPairPresent
        /\ HasField(acrOut.fields, "mobile") =>
             FieldValue(acrOut.fields, "mobile") = "91" \o acrIn.authentication.MobileNumber
        /\ HasField(acrOut.fields, "email") =>
             FieldValue(acrOut.fields, "email") = acrIn.authentication.Email

\* C6 witness: a bundle holding phone, email and otpId of which only the phone
\* passes its gate
C6_Witness ==
    /\ Built
    /\ PhonePresent /\ EmailPresent /\ OtpIdPresent
    /\ acrIn.isTruecaller /\ ~acrIn.isSignup
    /\ HasField(acrOut.fields, "mobile")
    /\ ~HasField(acrOut.fields, "email")
    /\ ~HasField(acrOut.fields, "otpId")


\* the number of segments of fs whose key is k
RECURSIVE CountField(_, _)
CountField(fs, k) ==
    IF fs = << >> THEN 0
    ELSE (IF fs[1][1] = k THEN 1 ELSE 0) + CountField(Tail(fs), k)

\* C31: every ACR string begins with isOtp:true or isOtp:false; built for a
\* version other than "2" it holds one isSignup and one isLogin segment, exactly
\* one of them true, and no version segment; built for version "2" it holds
\* neither isSignup nor isLogin and it holds version:2.
C31_FlagsAndVersion ==
    Built =>
        /\ \/ startsWith(acrOut.acr_values, "isOtp:true&")
           \/ startsWith(acrOut.acr_values, "isOtp:false&")
        /\ acrOut.acr_values = JoinFields(acrOut.fields)
        /\ acrIn.version # "2" =>
             /\ CountField(acrOut.fields, "isSignup") = 1
             /\ CountField(acrOut.fields, "isLogin") = 1
             /\ FieldValue(acrOut.fields, "isSignup") \in {"true", "false"}
             /\ FieldValue(acrOut.fields, "isLogin") \in {"true", "false"}
             /\ FieldValue(acrOut.fields, "isSignup") # FieldValue(acrOut.fields, "isLogin")
             /\ FieldValue(acrOut.fields, "isSignup") = BoolToString(acrIn.isSignup)
             /\ ~HasField(acrOut.fields, "version")
             /\ ~includes(acrOut.acr_values, "version:")
        /\ acrIn.version = "2" =>
             /\ ~HasField(acrOut.fields, "isSignup")
             /\ ~HasField(acrOut.fields, "isLogin")
             /\ ~includes(acrOut.acr_values, "isSignup:")
             /\ ~includes(acrOut.acr_values, "isLogin:")
             /\ CountField(acrOut.fields, "version") = 1
             /\ FieldValue(acrOut.fields, "version") = "2"
             /\ includes(acrOut.acr_values, "&version:2")

\* a signup string of the newer protocol, built through getTokenUsingAcrValues
C31_Witness ==
    /\ Built
    /\ acrOut.via = "getTokenUsingAcrValues"
    /\ acrIn.version = "2"
    /\ acrIn.isSignup
    /\ HasField(acrOut.fields, "version")
    /\ HasField(acrOut.fields, "email")
    /\ startsWith(acrOut.acr_values, "isOtp:false&isTruecaller:false")

(***************************************************************************)
(* Properties of the flow and its session record (Spec, SpecComplete)        *)
(***************************************************************************)

\* the AUTHENTICATION item holds a session record that parses
HoldsRecord == sessionStorage.AUTHENTICATION.kind = "json"

\* the record's age at time t
RecordAge(item, t) == t - item.value.issuedAt

\* C1: once 5 minutes have passed since the record's issuedAt, both the load
\* (getAuthenticationSession) and the validity check (isValidAuthSessionStorage)
\* report the record as absent, although the store still holds its bytes.
C1_StaleReportedAbsent ==
    (HoldsRecord /\ RecordAge(sessionStorage.AUTHENTICATION, now) >= 5 * 60 * 1000)
        => /\ getAuthenticationSession(sessionStorage) = NULL
           /\ ~isValidAuthSessionStorage(sessionStorage, now)

\* what the email route's session check found under the AUTHENTICATION key,
\* and when
CheckedItem == lastEvent.seen.item
CheckedAt == lastEvent.seen.at
CheckedFresh == CheckedItem.kind = "json" /\ RecordAge(CheckedItem, CheckedAt) < 5 * 60 * 1000

\* The routed EmailPage resumes at the email step, with the phone credentials of
\* the record and no new mobile/OTP round trip, if and only if the stored record
\* is valid; otherwise the router is back on the mobile step and the record is
\* gone (holds under Spec).
EmailPageResume ==
    lastEvent.name = "sessionCheckEffect" =>
        IF CheckedFresh
          THEN /\ route = "/email"
               /\ mounted = "EmailPage"
               /\ emailPage.sessionChecked
               /\ emailPage.authentication = CheckedItem.value.auth
               /\ emailPage.waOpted = CheckedItem.value.waOpted
               /\ sessionStorage.AUTHENTICATION = CheckedItem
               /\ generateOtpTimeout = NoTimer
               /\ otpRequests = << >>
          ELSE /\ route = "/"
               /\ mounted = "LoginPage"
               /\ loginPage = LoginInitial
               /\ emailPage = EmailInitial
               /\ sessionStorage.AUTHENTICATION = NoItem

\* a reload of the routed email page, some time after the record was written,
\* resumed at the email step with the verified mobile number
EmailPageResumed ==
    /\ lastEvent.name = "sessionCheckEffect"
    /\ CheckedFresh
    /\ CheckedAt > CheckedItem.value.issuedAt
    /\ mounted = "EmailPage"
    /\ emailPage.authentication.MobileNumber \in Mobiles
    /\ emailPage.authentication.OtpId \in OtpIds

\* C2: when the email route is mounted, the flow is at the email step, with the
\* credentials of the record restored into the bundle and no new mobile/OTP
\* round trip, if and only if the stored record is valid; with no record, an
\* unparsable record or one older than 5 minutes it is at the mobile step.
\* Stated for PhoneNumberSignInV3Complete (under SpecComplete).
C2_MountResumesWithBundle ==
    lastEvent.name = "MountComplete" =>
        IF CheckedFresh
          THEN /\ signIn.showEmailOptions
               /\ route = "/email"
               /\ signIn.authentication = CheckedItem.value.auth
               /\ ~signIn.showOtpForm
               /\ generateOtpTimeout = NoTimer
               /\ otpRequests = << >>
          ELSE /\ ~signIn.showEmailOptions
               /\ signIn.authentication = NewAuthentication

\* C3: when a token call made while awaiting the OTP comes back "not found",
\* the record written at that moment holds the credential bundle as it is then
\* (its current mobile number included) and the flow is at the email step.
C3_RecordHoldsCurrentBundle ==
    (lastEvent.name = "loginTokenRejectsNotFound" /\ lastEvent.seen.attached)
        => /\ HoldsRecord
           /\ sessionStorage.AUTHENTICATION.value.auth.MobileNumber
                  = lastEvent.seen.current.MobileNumber
           /\ sessionStorage.AUTHENTICATION.value.issuedAt = now
           /\ mounted = "EmailPage"

\* C4: when a token call succeeds, from the OTP step or from the email step,
\* the record is removed, the contact number is stored, the signed-up marker is
\* set and the token is emitted.
C4_TokenIssuedEffects ==
    lastEvent.name \in {"loginTokenResolves", "signupTokenResolves"}
        => /\ sessionStorage.AUTHENTICATION = NoItem
           /\ sessionStorage.CONTACT = StringItem(lastEvent.seen.mobileNumber)
           /\ sessionStorage.SIGN_UP = StringItem("true")
           /\ sessionStorage.ZEST = JSONstringify(lastEvent.seen.token)

\* the token calls of a page's submit handler that await their response
Outstanding(page) ==
    { i \in DOMAIN tokenRequests : tokenRequests[i].page = page /\ tokenRequests[i].attached }

\* C15: within a step at most one backend request of the step is outstanding:
\* a submit made while the previous submit of the step awaits its response
\* issues no new call.
C15_OneOutstandingCallPerStep ==
    \A page \in {"LoginPage", "EmailPage"} : Cardinality(Outstanding(page)) <= 1

\* the flow is no longer in the OTP step that verifyOtp was called in
LeftOtpStep == mounted # "LoginPage" \/ ~loginPage.showOtpForm

\* the response of a verifyOtp token call is handled
LoginResponse ==
    \E i \in DOMAIN tokenRequests :
        \/ \E token \in Tokens : loginTokenResolves(i, token)
        \/ \E error \in BackendErrors : loginTokenRejectsNotFound(i, error)
        \/ \E error \in BackendErrors : loginTokenRejects(i, error)

\* C16: a response that arrives after the flow has left the step that issued
\* the request changes nothing: not the current step, not the credentials, not
\* the session storage.
C16_LateResponseChangesNothing ==
    [][ (LeftOtpStep /\ LoginResponse)
            => UNCHANGED <<sessionStorage, route, mounted, loginPage, emailPage>> ]_vars

\* an OTP request is sent in this step
OtpRequestSent == Len(otpRequests') = Len(otpRequests) + 1

\* C17: submits of the mobile number made within the 500 ms quiet period (while
\* the debounce timer is pending) are coalesced: a submit sends nothing and
\* leaves the timer armed with its number, and one request is sent per armed
\* timer, when it fires, carrying the number of the last submit.
C17_BurstSendsLastNumberOnce ==
    [][ /\ \A mobileNumber \in Mobiles :
               handleMobileSubmit(mobileNumber)
                   => /\ otpRequests' = otpRequests
                      /\ generateOtpTimeout' = [ pending |-> TRUE, mobileNumber |-> mobileNumber ]
        /\ OtpRequestSent
               => /\ generateOtpTimeout.pending
                  /\ generateOtpTimeout' = NoTimer
                  /\ otpRequests' = Append(otpRequests,
                                           [ mobileNumber |-> generateOtpTimeout.mobileNumber ])
        /\ (generateOtpTimeout.pending /\ generateOtpTimeout'.pending
                /\ generateOtpTimeout' # generateOtpTimeout)
               => lastEvent'.name \in {"handleMobileSubmit", "resendOtp"}
      ]_vars

\* the second submit of a burst: it has cancelled the timer of the first,
\* nothing has been sent, and the timer holds the second number
C17_Witness ==
    /\ lastEvent.name = "handleMobileSubmit"
    /\ lastEvent.seen.cleared.pending
    /\ lastEvent.seen.cleared.mobileNumber = "9876543210"
    /\ generateOtpTimeout = [ pending |-> TRUE, mobileNumber |-> "9123456780" ]
    /\ otpRequests = << >>

\* the flow is in the email step / in the mobile step of the routed pages
InCollectingEmail == mounted = "EmailPage" /\ route = "/email"
InEnteringMobile == mounted = "LoginPage" /\ route = "/" /\ ~loginPage.showOtpForm

\* C18: a backward navigation out of the email step does not by itself leave
\* the step or remove the session record: it opens the confirmation prompt;
\* confirming removes the record and returns to the mobile step, cancelling
\* leaves the flow in the email step with the record as it was.
C18_BackAsksBeforeLeaving ==
    [][ /\ handlePopState
            => /\ InCollectingEmail'
               /\ sessionStorage' = sessionStorage
               /\ emailPage'.showLogoutConfirmModal
               /\ emailPage'.authentication = emailPage.authentication
        /\ handleLogoutConfirm
            => /\ InEnteringMobile'
               /\ ~HoldsRecord'
        /\ handleLogoutCancel
            => /\ InCollectingEmail'
               /\ sessionStorage' = sessionStorage
               /\ ~emailPage'.showLogoutConfirmModal
               /\ emailPage'.authentication = emailPage.authentication
      ]_vars

\* the prompt opened by a backward navigation has been cancelled: the flow is
\* still in the email step and the record is still held
C18_Witness ==
    /\ lastEvent.name = "handleLogoutCancel"
    /\ InCollectingEmail
    /\ HoldsRecord
    /\ emailPage.authentication.MobileNumber # ""

\* the signup token call of the mounted email page has just failed with code
SignupFailedWith(code) ==
    /\ lastEvent.name = "signupTokenRejects"
    /\ lastEvent.seen.errorCode = code
    /\ lastEvent.seen.attached
    /\ mounted = "EmailPage"

\* C19: in the email step, when the signup token call fails with the
\* email-belongs-to-another-user code (ZMAUT25), the email is cleared from the
\* credential bundle and the modal-level error is shown.
C19_EmailTakenClearsEmail ==
    SignupFailedWith("ZMAUT25")
        => /\ emailPage.authentication.Email = ""
           /\ emailPage.authError # NoAuthError
           /\ emailPage.authError.heading = "Email ID belongs to another user"

\* C20: in the email step, when the signup token call fails with the
\* session-expired code (ZMAUT02), the session record is cleared and the flow
\* returns to the mobile step.
C20_SessionExpiredReturnsToMobile ==
    SignupFailedWith("ZMAUT02") ~> (~HoldsRecord /\ InEnteringMobile)

InAwaitingOtp == mounted = "LoginPage" /\ loginPage.showOtpForm /\ loginPage.hasOtpCallFinished

\* C21: a valid mobile number submitted from the mobile step leads, when the
\* OTP request succeeds, to the OTP step holding the returned OtpId and
\* MFA-challenge flag; when the request fails, the flow is in the mobile step
\* with an error message shown.
C21_OtpRequestOutcome ==
    /\ (lastEvent.name = "triggerOtpResolves" /\ loginPage.showOtpForm)
           => /\ InAwaitingOtp
              /\ loginPage.authentication.MobileNumber = lastEvent.seen.mobileNumber
              /\ loginPage.authentication.OtpId = lastEvent.seen.OtpId
              /\ loginPage.authentication.ShowMfaChallenge = lastEvent.seen.ShowMfaChallenge
    /\ lastEvent.name = "triggerOtpRejects"
           => /\ mounted = "LoginPage"
              /\ ~loginPage.showOtpForm
              /\ LoginErrorShown # ""

\* exactly ten digits, the first of them 5 to 9: ^[5-9]\d{9}$
IsIndianMobile(value) ==
    /\ Len(value) = 10
    /\ indexOf("56789", SubSeq(value, 1, 1)) >= 0
    /\ \A i \in 2..10 : IsDigit(SubSeq(value, i, i))

\* C22: an OTP request is sent only for a submitted number of exactly ten
\* digits that matches [5-9]\d{9}; the submit of any other value leaves the
\* page at the mobile step, arms no timer and sends nothing.
C22_OnlyValidNumbersAreSent ==
    [][ /\ OtpRequestSent
               => IsIndianMobile(otpRequests'[Len(otpRequests')].mobileNumber)
        /\ \A enteredNumber \in MobileInputs :
               (submitMobileNumber(enteredNumber) /\ ~IsIndianMobile(enteredNumber))
                   => /\ mounted' = "LoginPage"
                      /\ ~loginPage'.showOtpForm
                      /\ UNCHANGED <<loginPage, otpRequests, tokenRequests, generateOtpTimeout>>
      ]_vars

\* ten digits starting with 1 were submitted and refused by the form: nothing
\* is armed or in flight, the page is at the mobile step
C22_Witness ==
    /\ lastEvent = Event("submitMobileNumber", [ rejected |-> "1234567890" ])
    /\ mounted = "LoginPage"
    /\ ~loginPage.showOtpForm
    /\ ~generateOtpTimeout.pending
    /\ Len(otpRequests) = 0

\* C23: when four token calls in a row fail with ZMAUT02 at the OTP step, the
\* message shown for the fourth failure differs from the message shown for
\* each of the first three.
C23_FourthMessageDiffers ==
    Len(otpRun) >= 4 => \A k \in 1..3 : otpRun[4] # otpRun[k]

\* C24: a token call of the OTP step that fails with anything but ZMAUT23 or
\* ZMAUT28 while the OTP form is open leaves the page at the OTP step as it
\* was: the form stays open and hasOtpCallFinished keeps its value. Once the
\* OTP request has finished a further code can be submitted, however many
\* ZMAUT02 failures came before.
C24_FailureKeepsOtpStepOpen ==
    (lastEvent.name = "loginTokenRejects" /\ lastEvent.seen.otpFormOpen)
        => /\ mounted = "LoginPage"
           /\ loginPage.showOtpForm
           /\ loginPage.hasOtpCallFinished = lastEvent.seen.otpCallFinished
           /\ loginPage.hasOtpCallFinished
                  => InAwaitingOtp /\ ENABLED verifyOtp("123456", "")

\* the fifth ZMAUT02 failure in a row has arrived
C24_Witness ==
    /\ lastEvent.name = "loginTokenRejects"
    /\ lastEvent.seen.errorCode = "ZMAUT02"
    /\ lastEvent.seen.otpFormOpen
    /\ Len(otpRun) = MaxOtpRun
    /\ InAwaitingOtp

\* the phone number of the attempt under way: the bundle's number at the OTP
\* step and at the email step, "" when no attempt is under way (mobile step)
AttemptPhone ==
    IF mounted = "LoginPage" /\ loginPage.showOtpForm
      THEN loginPage.authentication.MobileNumber
    ELSE IF mounted = "EmailPage" /\ emailPage.sessionChecked
      THEN emailPage.authentication.MobileNumber
    ELSE ""

\* the signup token calls of the email step carry the number of the attempt
SignupCarriesAttemptPhone ==
    \A i \in DOMAIN tokenRequests :
        (tokenRequests[i].page = "EmailPage" /\ tokenRequests[i].attached)
            => tokenRequests[i].request.username = "91" \o AttemptPhone

\* C25: from the OTP request on, the bundle's phone number does not change
\* while the attempt is under way (OTP step, email step), the record written
\* when the account is not found holds that number, the bundle resumed at the
\* email step holds the record's number, and the signup request carries it.
C25_PhoneKeptThroughAttempt ==
    [][ /\ (AttemptPhone # "" /\ AttemptPhone' # "") => AttemptPhone' = AttemptPhone
        /\ \A i \in DOMAIN tokenRequests, error \in BackendErrors :
               (loginTokenRejectsNotFound(i, error) /\ AttemptPhone # "")
                   => sessionStorage'.AUTHENTICATION.value.auth.MobileNumber = AttemptPhone
        /\ (AttemptPhone' # "" /\ HoldsRecord')
               => sessionStorage'.AUTHENTICATION.value.auth.MobileNumber = AttemptPhone'
        /\ (mounted' = "EmailPage" /\ emailPage'.sessionChecked) => SignupCarriesAttemptPhone'
      ]_vars

\* the contact-number marker holds a number, the sign-up marker reads as set
\* (getSignUpFlag: value === 'true')
ContactMarkerSet == sessionStorage.CONTACT # NoItem
SignUpMarkerSet == sessionStorage.SIGN_UP = StringItem("true")

\* C30: as long as the orchestrator has emitted no token, whatever attempts
\* have failed or been abandoned, session storage holds no contact number and
\* its sign-up flag is not "true".
C30_MarkersOnlyWithToken ==
    emitted = NoToken => ~ContactMarkerSet /\ ~SignUpMarkerSet

\* a token call has been rejected, the mount has written the sign-up flag as
\* "false", and no marker is set
C30_Witness ==
    /\ mounted = Complete
    /\ lastEvent.name \in {"tokenRejects", "tokenRejectsNotFound"}
    /\ emitted = NoToken
    /\ sessionStorage.SIGN_UP = StringItem("false")
    /\ ~ContactMarkerSet

\* C36: the OTP attempt counter of LoginPage grows only in a step in which a
\* token call is answered with ZMAUT02; no other step, and no other error,
\* adds to it.
C36_CounterCountsIncorrectOtpOnly ==
    [][ loginPage'.retryOtpAttempts > loginPage.retryOtpAttempts
            => /\ lastEvent'.name = "loginTokenRejects"
               /\ lastEvent'.seen.errorCode = "ZMAUT02" ]_vars

\* C37: after a signup token call fails with an error that keeps the email
\* step (another user's email, or a generic failure), the user can submit
\* again: the page's isSubmitting guard is released and the form's submit
\* button is enabled for a valid email with consent given
C37_SubmitReleasedAfterFailure ==
    ( /\ mounted = "EmailPage"
      /\ lastEvent.name = "signupTokenRejects"
      /\ lastEvent.seen.attached
      /\ lastEvent.seen.errorCode # "ZMAUT02" )
        => /\ ~emailPage.isSubmitting
           /\ ~isButtonDisabled("user@gmail.com", TRUE)

\* the Pending Session Record slot of the Session Store
PendingRecord == sessionStorage.AUTHENTICATION

\* C38: while the login page is up (EnteringMobile or AwaitingOtp) the store
\* holds no Pending Session Record; a record is in the store of a loaded
\* application only on the email step or on the logout page before its
\* countdown ends
C38_NoRecordOnLoginStep ==
    /\ mounted = "LoginPage" => PendingRecord = NoItem
    /\ PendingRecord # NoItem => mounted \in {"none", "EmailPage", "LogoutPage"}

\* the login step was reached again from the email step, whose record is gone
C38_Witness ==
    /\ mounted = "LoginPage"
    /\ lastEvent.name \in {"handleLogoutConfirm", "handleLogout"}
    /\ PendingRecord = NoItem

(***************************************************************************)
(* Properties of the recovery engine (under SpecRecovery)                   *)
(***************************************************************************)

\* the last step was a recoverFromError call; what it saw and how it ended
Called == outcome.name = "recoverFromError"
Seen == outcome.seen
Code == Seen.error.code

\* the breaker of the code was open when the call arrived
BreakerWasOpen ==
    /\ Seen.breaker # NoBreaker
    /\ Seen.breaker.failures >= 5
    /\ Seen.at - Seen.breaker.lastFailure < 60000

\* 60 seconds or more had passed since the last recorded failure of the code
CooldownHadElapsed ==
    /\ Seen.breaker # NoBreaker
    /\ Seen.at - Seen.breaker.lastFailure >= 60000

\* the call neither waited nor left a recovery suspended, and the ledger entry
\* of its scope is what it was
RejectedAtOnce ==
    /\ Seen.thrown # ""
    /\ clock = Seen.at
    /\ Len(recoveries) = Seen.pending
    /\ retryAttempts[Seen.attemptKey] = Seen.attempts

\* C7: while the breaker of a code is open, every recoverFromError call for
\* that code throws at once, without delay, whatever the attempt scope and
\* however much retry budget the scope has left; the breaker is not touched.
C7_OpenBreakerRejects ==
    (Called /\ BreakerWasOpen)
        => /\ RejectedAtOnce
           /\ canRecover(Seen.error) => Seen.thrown = "CIRCUIT_BREAKER_OPEN"
           /\ circuitBreakers[Code] = Seen.breaker

\* C7 witness: a call for a scope with retry budget left was rejected by the
\* breaker that another scope's failures had opened
C7_Witness ==
    /\ Called
    /\ BreakerWasOpen
    /\ Seen.thrown = "CIRCUIT_BREAKER_OPEN"
    /\ Seen.attemptKey = "SYS_002_s1"
    /\ Seen.attempts < getRetryConfig(Code).maxRetries

\* the breaker of code c rejects calls at the present time
OpenNow(c) ==
    /\ circuitBreakers[c] # NoBreaker
    /\ circuitBreakers[c].failures >= 5
    /\ clock - circuitBreakers[c].lastFailure < 60000

\* the number of trailing entries of a failure log, each less than 60 seconds
\* after the one before it
RECURSIVE ChainLength(_)
ChainLength(log) ==
    IF Len(log) <= 1 THEN Len(log)
    ELSE IF log[Len(log)] - log[Len(log) - 1] < 60000
      THEN 1 + ChainLength(SubSeq(log, 1, Len(log) - 1))
      ELSE 1

\* C8 as stated: the breaker of a code is open only when 5 failures of that
\* code were recorded within one 60-second window, and then it rejects until
\* that window has elapsed.
C8_OpenOnlyWithinOneWindow ==
    \A c \in RecoveryCodes :
        OpenNow(c) => /\ Len(failureLog[c]) = 5
                      /\ failureLog[c][5] - failureLog[c][1] < 60000
                      /\ clock - failureLog[c][1] < 60000

\* C8 amended: the breaker of a code is open exactly when its last 5 recorded
\* failures each came less than 60 seconds after the one before and less than
\* 60 seconds have passed since the fifth; the count the breaker holds is the
\* length of that chain.
C8_OpenOnChainOfFailures ==
    \A c \in RecoveryCodes :
        /\ OpenNow(c) <=> /\ ChainLength(failureLog[c]) = 5
                          /\ clock - failureLog[c][5] < 60000
        /\ circuitBreakers[c] # NoBreaker
             => /\ circuitBreakers[c].failures = ChainLength(failureLog[c])
                /\ circuitBreakers[c].lastFailure = failureLog[c][Len(failureLog[c])]

\* C8 witness: a breaker that is open although its five failures span 60
\* seconds or more
C8_Witness ==
    /\ OpenNow("SYS_002")
    /\ failureLog["SYS_002"][5] - failureLog["SYS_002"][1] >= 60000

\* C9: once 60 seconds have passed since the last recorded failure of a code,
\* recoverFromError is no longer rejected by the breaker and the next recorded
\* failure of that code counts as failure 1. (The entry itself is deleted by
\* the next isCircuitBreakerOpen check; nothing reads the map in between.)
C9_CooldownDiscardsCount ==
    /\ \A c \in RecoveryCodes :
           (circuitBreakers[c] # NoBreaker /\ clock - circuitBreakers[c].lastFailure >= 60000)
               => ~isCircuitBreakerOpen(circuitBreakers, c, clock)
    /\ (Called /\ CooldownHadElapsed /\ canRecover(Seen.error))
           => /\ Seen.thrown # "CIRCUIT_BREAKER_OPEN"
              /\ Seen.thrown = "MAX_RETRIES_EXCEEDED"
                   => circuitBreakers[Code] =
                          [ present |-> TRUE, failures |-> 1,
                            lastFailure |-> Seen.at, isOpen |-> FALSE ]
              /\ Seen.thrown = "" => circuitBreakers[Code] = NoBreaker

\* C9 witness: a breaker that had been open saw its next failure, 60 seconds
\* or more later, counted as failure 1
C9_Witness ==
    /\ Called
    /\ CooldownHadElapsed
    /\ Seen.breaker.failures >= 5
    /\ Seen.thrown = "MAX_RETRIES_EXCEEDED"
    /\ circuitBreakers[Code].failures = 1

\* the ledger count of the call's scope had reached the maximum of its code
BudgetSpent == Seen.attempts >= getRetryConfig(Code).maxRetries

\* the failures the breaker counted before the call, an entry whose cooldown
\* has passed counting as none
CountedBefore ==
    IF Seen.breaker = NoBreaker \/ CooldownHadElapsed THEN 0 ELSE Seen.breaker.failures

\* the call recorded exactly one breaker failure and threw the terminal error
\* without delaying
TerminalFailure ==
    /\ Seen.thrown = "MAX_RETRIES_EXCEEDED"
    /\ RejectedAtOnce
    /\ circuitBreakers[Code] # NoBreaker
    /\ circuitBreakers[Code].failures = CountedBefore + 1
    /\ circuitBreakers[Code].lastFailure = Seen.at

\* C10 as stated: when the attempt count recorded for (code, scope) has used up
\* the maximum of the code, recoverFromError records exactly one breaker
\* failure for the code and throws MAX_RETRIES_EXCEEDED without delaying.
C10_SpentBudgetIsTerminal == (Called /\ BudgetSpent) => TerminalFailure

\* C10 amended: the same, for an error that can be recovered and while the
\* breaker of its code is not open; the ledger count never exceeds the maximum.
C10_SpentBudgetIsTerminalUnlessOpen ==
    /\ \A call \in RecoveryCalls :
           retryAttempts[attemptKeyOf(call[1], call[2])] <= getRetryConfig(call[1]).maxRetries
    /\ (Called /\ BudgetSpent /\ canRecover(Seen.error) /\ ~BreakerWasOpen) => TerminalFailure
    /\ (Called /\ Seen.thrown = "MAX_RETRIES_EXCEEDED")
           => (BudgetSpent /\ canRecover(Seen.error) /\ ~BreakerWasOpen)

\* C10 witness: a terminal failure added to failures the breaker already held
C10_Witness ==
    /\ Called
    /\ BudgetSpent
    /\ Seen.thrown = "MAX_RETRIES_EXCEEDED"
    /\ CountedBefore >= 1
    /\ circuitBreakers[Code].failures = CountedBefore + 1

\* C11: after an operation has succeeded (and no recovery of its scope is still
\* waiting), the retry ledger holds no entry for its (errorCode, scope), so
\* that a later failure of the code in the scope starts from attempt count 0.
C11_SuccessClearsLedger ==
    (outcome.name = "operationSucceeds" /\ outcome.seen.pending = 0)
        => retryAttempts[outcome.seen.attemptKey] = 0

\* the recovery the last call left suspended
Suspended == recoveries[Len(recoveries)]

\* C32: the delay a recoverFromError call awaits is delay * backoffMultiplier ^
\* n for a code configured with exponential backoff, n being the ledger count
\* of its (code, scope) when the call arrives, and delay itself for a code
\* configured with a flat delay; the call resumes no earlier than that.
C32_BackoffDelay ==
    (Called /\ Seen.thrown = "")
        => LET config == getRetryConfig(Code)
               n == retryAttempts[Seen.attemptKey]
           IN /\ n = Seen.attempts
              /\ Suspended.attemptKey = Seen.attemptKey
              /\ Suspended.delay = IF config.exponentialBackoff
                                     THEN config.delay * (config.backoffMultiplier ^ n)
                                     ELSE config.delay
              /\ Suspended.due = Seen.at + Suspended.delay
              /\ Code = "NET_001" => Suspended.delay = 1000 * (2 ^ n)
              /\ Code = "SYS_002" => Suspended.delay = 10000

\* the third recovery of NET_001 waits 4 seconds
C32_Witness ==
    /\ Called
    /\ Seen.thrown = ""
    /\ Code = "NET_001"
    /\ Seen.attempts = 2
    /\ Suspended.delay = 4000

\* C33: every recoverFromError call of the service that returns normally
\* leaves the ledger count of its (code, scope) one higher than it was when
\* the call returned, also when the delays of several calls for the same
\* (code, scope) overlap.
C33_EachRecoveryCountsOnce ==
    [][ (outcome'.name = "delayElapses" /\ outcome'.seen.caller = "retryAction")
            => retryAttempts'[outcome'.seen.attemptKey]
                   = retryAttempts[outcome'.seen.attemptKey] + 1 ]_vars

\* C34: the recoveries of an operation that keeps failing with the same
\* recoverable error accumulate in one ledger entry: every recovery the hook
\* makes for executeWithRecovery leaves the count of its (code, scope) one
\* higher, so that the next one waits longer and the maximum is reached.
C34_HookRecoveriesAccumulate ==
    [][ (outcome'.name = "delayElapses" /\ outcome'.seen.caller = "useErrorRecovery")
            => retryAttempts'[outcome'.seen.attemptKey]
                   = retryAttempts[outcome'.seen.attemptKey] + 1 ]_vars

(***************************************************************************)
(* Claims about the classifier and the extractors (SpecClassify)           *)
(***************************************************************************)

Made(fn) == classified.called /\ classified.fn = fn

RecoverableTypes == {"NETWORK", "RATE_LIMIT", "SYSTEM", "THIRD_PARTY"}
UnrecoverableTypes == {"AUTHENTICATION", "VALIDATION", "SECURITY"}

\* C12: canRecover(e) is e's retryable flag whenever the flag is set; when it is
\* not set, canRecover(e) is true exactly for the categories NETWORK,
\* RATE_LIMIT, SYSTEM and THIRD_PARTY, and false for AUTHENTICATION, VALIDATION
\* and SECURITY.
C12_FlagThenCategory ==
    Made("canRecover") =>
        LET e == classifyIn.arg
            category == classifyError(e)
        IN  /\ e.retryable = "true" => classified.value = TRUE
            /\ e.retryable = "false" => classified.value = FALSE
            /\ e.retryable = "undefined"
                   => /\ classified.value = (category \in RecoverableTypes)
                      /\ category \in UnrecoverableTypes => classified.value = FALSE
                      /\ category \in RecoverableTypes \cup UnrecoverableTypes

\* an error with no flag and no type whose code puts it in a recoverable
\* category, found recoverable
C12_Witness ==
    /\ Made("canRecover")
    /\ classifyIn.arg.retryable = "undefined"
    /\ classifyIn.arg.type = ""
    /\ classifyIn.arg.code = "RATE_001"
    /\ classified.value = TRUE

\* C13: classification never throws: for every raw value (null, undefined, a
\* string, an Error, an object whose code or message is missing or is not a
\* string, a code outside the known prefixes) classifyError returns a category,
\* SYSTEM when nothing else applies.
C13_ClassifyErrorReturnsCategory ==
    Made("classifyError") => (~classified.threw /\ classified.value \in ErrorTypes)

\* the text an extractor reads: its own field, else Message
HasBar(text) == \E i \in 1..Len(text) : SubSeq(text, i, i) = "|"
\* code is what stands in text before its first '|'
IsBeforeFirstBar(code, text) ==
    /\ ~HasBar(code)
    /\ Len(text) > Len(code)
    /\ SubSeq(text, 1, Len(code)) = code
    /\ SubSeq(text, Len(code) + 1, Len(code) + 1) = "|"
HasNamespacePrefix(code) == Len(code) >= 5 /\ SubSeq(code, 1, 5) = "ZMAUT"

ExtractedRight(code, text) ==
    /\ code # "" => (IsBeforeFirstBar(code, text) /\ HasNamespacePrefix(code))
    /\ ~HasBar(text) => code = ""
    /\ (\E head \in TextHeads \ {"ZMAUT"}, d \in TextDigits, t \in TextTails :
            text = head \o d \o t) => code = ""

\* C14: the extracted code is the part of error_description (or Message) before
\* the first '|', accepted only if its first five characters are ZMAUT; a text
\* with no '|' or with another prefix yields no code; and the Google extractor,
\* which reads the error field, returns for a text what the standard extractor
\* returns for the same text in error_description.
C14_CodeIsNamespacedHeadOfText ==
    /\ (Made("checkIfErrorCodeRetured") /\ classifyIn.arg.kind = "object"
            /\ classifyIn.arg.body = "object")
           => /\ ExtractedRight(classified.value,
                                OrElse(classifyIn.arg.error_description, classifyIn.arg.Message))
              /\ classified.value = checkIfErrorCodeReturedFromGoogle(
                     [ classifyIn.arg EXCEPT !.error = classifyIn.arg.error_description ])
    /\ (Made("checkIfErrorCodeReturedFromGoogle") /\ classifyIn.arg.kind = "object"
            /\ classifyIn.arg.body = "object")
           => /\ ExtractedRight(classified.value,
                                OrElse(classifyIn.arg.error, classifyIn.arg.Message))
              /\ classified.value = checkIfErrorCodeRetured(
                     [ classifyIn.arg EXCEPT !.error_description = classifyIn.arg.error ])

\* a text with two '|' whose head is a namespaced code, cut at the first one
C14_Witness ==
    /\ Made("checkIfErrorCodeRetured")
    /\ classifyIn.arg.error_description = "ZMAUT02|a|b"
    /\ classified.value = "ZMAUT02"

\* ---------------------------------------------------------------------------
\* Claims about the callback route of the third-party redirect
\* ---------------------------------------------------------------------------

\* C26: the token request the callback route issues on return from the
\* redirect is built from the credentials of the stored session record (its
\* mobile number and OTP data) together with the email of the redirect.
C26_CallbackRequestFromRecord ==
    (/\ lastEvent.name = "MountFinoramicCallback"
     /\ lastEvent.seen.authSession # NULL
     /\ finoramic.pending # NotBuilt)
        => finoramic.pending.request =
               TokenRequest([ lastEvent.seen.authSession.auth EXCEPT
                                  !.Email = lastEvent.seen.email ],
                            TRUE, FALSE, CallbackAcrValues, "2")

\* the store holds a record that is 5 minutes old or older
RecordStale ==
    /\ sessionStorage.AUTHENTICATION.kind = "json"
    /\ now - JSONparse(sessionStorage.AUTHENTICATION).issuedAt >= 5 * 60 * 1000

\* a token request that carries nothing a record could have given it
CarriesNoCredentials(request) ==
    /\ request.username = ""
    /\ request.password = ""
    /\ ~HasField(request.fields, "mobile")
    /\ ~HasField(request.fields, "otpId")

StoreCalled(fn) == store.call.called /\ store.call.fn = fn
SaveCalled == StoreCalled("setAuthenticationSession") \/ StoreCalled("setAuthSessionStorage")

\* C27: when the browser store throws on every access, no session store
\* operation lets the exception out: a save and a removal leave the store as
\* it was, the load returns null and the validity check returns false.
C27_StoreFailuresSwallowed ==
    (store.call.called /\ store.throws)
        => /\ ~store.call.threw
           /\ StoreCalled("getAuthenticationSession") => store.call.value = NULL
           /\ StoreCalled("isValidAuthSessionStorage") => store.call.value = FALSE
           /\ (SaveCalled \/ StoreCalled("removeAuthenticationSession"))
                  => sessionStorage.AUTHENTICATION = store.call.value.before

\* C28: a save stamps the record with the time of the call, except a save
\* asked to reuse the issuedAt, which keeps the issuedAt of the record already
\* stored (and writes nothing when what is stored does not parse).
C28_SaveStampsIssuedAt ==
    (SaveCalled /\ ~store.throws)
        => LET seen == store.call.value
           IN  IF seen.reuseIssuedAt /\ seen.before.kind = "json"
                 THEN /\ HoldsRecord
                      /\ JSONparse(sessionStorage.AUTHENTICATION).issuedAt
                             = JSONparse(seen.before).issuedAt
               ELSE IF seen.reuseIssuedAt /\ seen.before # NoItem
                 THEN sessionStorage.AUTHENTICATION = seen.before
               ELSE /\ HoldsRecord
                    /\ JSONparse(sessionStorage.AUTHENTICATION).issuedAt = seen.at

\* a save asked to reuse the issuedAt was made some time after the stored
\* record was issued, and the record still carries the old issuedAt
C28_Witness ==
    /\ StoreCalled("setAuthSessionStorage")
    /\ ~store.throws
    /\ store.call.value.reuseIssuedAt
    /\ store.call.value.before.kind = "json"
    /\ store.call.value.at > JSONparse(store.call.value.before).issuedAt
    /\ HoldsRecord
    /\ JSONparse(sessionStorage.AUTHENTICATION).issuedAt < now

FirstSuperseded ==
    /\ Len(authContext.logins) >= 2
    /\ \E j \in 2..Len(authContext.logins) :
           getCredentialsKey(authContext.logins[j].credentials)
               = getCredentialsKey(Head(authContext.logins).credentials)

\* C39: when a second authenticate call for the same credentials has started
\* before the first settled, the completion of the first neither changes the
\* authentication state nor removes the pending entry of the second call:
\* isAuthenticationInProgress() is still true after it
C39_FirstCallCancelled ==
    [][ ( /\ FirstSuperseded
          /\ authContext'.logins = Tail(authContext.logins) )
            => /\ authContext'.state = authContext.state
               /\ isAuthenticationInProgress' ]_vars
====
